---- MODULE Spec2Model ----
(***************************************************************************)
(* Model of the SSM Tool batching / orchestration core:                    *)
(*   - the blob store helpers of layers/utilities/aws/s3_utilities.py,     *)
(*   - chunk_jobs, make_jobs, run_job, post_error, clean_up_s3,            *)
(*     check_for_errors and main of lambdas/ssm_parameter_tool,            *)
(*   - the Step Functions state machine of                                 *)
(*     infrastructure/ssm_parameter_tool_stack.py.                         *)
(*   - the SSM helpers of layers/utilities/aws/ssm_utilities.py and        *)
(*     rename_parameters of lambdas/ssm_parameter_tool,                    *)
(*   - make_jobs of lambdas/ssm_run_document.                              *)
(*                                                                         *)
(* Blob keys are sequences of path segments ("a/b/c" is <<"a","b","c">>);  *)
(* a key that ends with "/" has the empty string as its last segment.      *)
(***************************************************************************)
EXTENDS Integers, Sequences, FiniteSets, TLC

VARIABLES
    s3,         \* the bucket: a function from the keys present to their bodies
    cjJobs,     \* chunk_jobs call: the argument `jobs`
    cjMax,      \* chunk_jobs call: the argument `max_batches`
    cjPc,       \* chunk_jobs call: "call", "returned" or "raised"
    cjPuts,     \* chunk_jobs call: the put_object_ calls that succeeded, in order
    cjBefore,   \* chunk_jobs call: the bucket when chunk_jobs was called
    pc,         \* the state machine's current state
    tries,      \* retries used so far by the init and error_check states
    initOut,    \* the init state's output: one divide_jobs event per region
    divide,     \* divide_jobs_map: per item, its status, retries and output
    run,        \* handle_jobs_map / run_jobs_map: per batch key, the branch
    result,     \* the execution's outcome: "none", "Success!" or "failed"
    lastCheck,  \* what the last check_for_errors call did, and how many
                \* error_check invocations there have been
    executed,   \* history: how often each job was passed to run_job
    raised,     \* history: how often each job's remote operation raised
    posted,     \* history: the post_error writes: key -> [n, body]
    errAtStart, \* history: error records present when the execution started
    faults,     \* blob-store calls that have raised so far
    budget,     \* how many blob-store calls may raise in this behaviour
    startAction,\* "action" of the event the execution was started with
    postRaised, \* history: post_error calls that raised to their caller
    mTool,      \* main call: the tool whose main is called
    mAction,    \* main call: event["action"] (NoAction: the key is missing)
    mPc,        \* main call: "call", "returned" or "raised"
    mRes,       \* main call: the value returned
    mBefore,    \* main call: the bucket when main was called
    ssm,        \* the SSM parameters that exist: name -> [value, tags]
    uOp,        \* utility call: the method called ("idle": none)
    uArgs,      \* utility call: its arguments
    uPc,        \* utility call: "call", "running", "returned" or "raised"
    uCalls,     \* utility call: the provider calls issued so far, in order
    uOut,       \* utility call: the value returned, or built so far
    uBefore     \* utility call: the SSM parameters when it was called

cjVars == <<cjJobs, cjMax, cjPc, cjPuts, cjBefore>>

runVars == <<pc, tries, initOut, divide, run, result, lastCheck, executed,
             raised, posted, errAtStart, faults, budget, startAction,
             postRaised>>

mainVars == <<mTool, mAction, mPc, mRes, mBefore>>

callVars == <<ssm, uOp, uArgs, uPc, uCalls, uOut, uBefore>>

vars == <<s3, cjVars, runVars, mainVars, callVars>>

(***************************************************************************)
(* Bounds of the model.                                                    *)
(***************************************************************************)
MaxJobs == 4
MaxM == 3
MaxAccounts == 2
MaxTime == 2
MaxFaults == 1
MaxBatchJobs == 2
MaxOutage == 3
MaxNames == 23
MaxStride == 3
MaxRenames == 2
MaxChecks == 3
MaxMix == 3
MaxInstances == 2

(***************************************************************************)
(* Program constants.                                                      *)
(***************************************************************************)
MAX_BATCHES == 100

Regions == {"us-east-1", "us-west-2"}
Accounts == {"111111111111", "222222222222"}
JOB_ACTION == "fix_tags"
JOBS_PREFIX == <<"ssm_tool", "jobs">>
ERRORS_PREFIX == <<"ssm_tool", "errors">>
ACCOUNTS_KEY == <<"ssm_tool", "accounts_list">>

(***************************************************************************)
(* Generic helpers.                                                        *)
(***************************************************************************)
SeqsUpTo(S, n) == UNION {[1..k -> S] : k \in 0..n}

CountIn(seq, v) == Cardinality({i \in DOMAIN seq : seq[i] = v})

RECURSIVE Flatten(_)
Flatten(seqs) ==
    IF seqs = <<>> THEN <<>> ELSE Head(seqs) \o Flatten(Tail(seqs))

(***************************************************************************)
(* json.dumps / json.loads of the job lists: the body stored in the bucket *)
(* is the encoded text, decoded again by get_object_as_dict.               *)
(***************************************************************************)
JsonDumps(value) == <<"json", value>>

JsonLoads(body) == body[2]

(***************************************************************************)
(* S3Utilities.                                                            *)
(***************************************************************************)
HasPrefix(key, prefix) ==
    /\ Len(key) > Len(prefix)
    /\ SubSeq(key, 1, Len(prefix)) = prefix

\* The key that is the prefix text itself ("ssm_tool/jobs/").
PrefixKey(prefix) == Append(prefix, "")

\* list_bucket_keys: every key with the prefix, except the prefix itself.
ListBucketKeys(store, prefix) ==
    {key \in DOMAIN store : HasPrefix(key, prefix) /\ key # PrefixKey(prefix)}

\* delete_objects_
DeleteObjects(store, keys) ==
    [key \in DOMAIN store \ keys |-> store[key]]

\* put_object_
PutObject(store, key, data) ==
    [k \in DOMAIN store \cup {key} |-> IF k = key THEN data ELSE store[k]]

\* get_object_as_dict
GetObjectAsDict(store, key) == JsonLoads(store[key])

(***************************************************************************)
(* Jobs.                                                                   *)
(***************************************************************************)
Job(action, region, account) ==
    [action |-> action, region |-> region, account |-> account]

JobSet == {Job(JOB_ACTION, r, a) : r \in {"us-east-1"}, a \in Accounts}

(***************************************************************************)
(* chunk_jobs.                                                             *)
(***************************************************************************)
NumberOfBatchesOffByOne(jobs, max_batches) ==
    IF Len(jobs) <= max_batches THEN Len(jobs) + 1 ELSE max_batches

NumberOfBatches(jobs, max_batches) ==
    IF Len(jobs) < max_batches THEN Len(jobs) ELSE max_batches

SpreadJobsNoCycle(jobs, job_groups, n) ==
    [x \in 0..(n - 1) |->
        IF x = 0 THEN job_groups[x] \o jobs ELSE job_groups[x]]

ForBatchesPrepend(jobs, job_groups, n) ==
    [x \in 0..(n - 1) |->
        IF x < Len(jobs) THEN <<jobs[x + 1]>> \o job_groups[x]
        ELSE job_groups[x]]

\* One pass of `for batch in job_groups`: each batch in turn takes the job
\* popped off the front of `jobs`, until no job is left (`break`).
ForBatches(jobs, job_groups, n) ==
    [x \in 0..(n - 1) |->
        IF x < Len(jobs) THEN Append(job_groups[x], jobs[x + 1])
        ELSE job_groups[x]]

\* `while jobs:` one pass over the batches after the other; a pass pops the
\* first n jobs, or all of them when fewer are left.
RECURSIVE SpreadJobs(_, _, _)
SpreadJobs(jobs, job_groups, n) ==
    IF jobs = <<>> THEN job_groups
    ELSE SpreadJobs(SubSeq(jobs, n + 1, Len(jobs)),
                    ForBatches(jobs, job_groups, n), n)

JobGroupsDropLast(jobs, max_batches) ==
    LET n == NumberOfBatches(jobs, max_batches)
    IN  IF n = 0 THEN <<>>
        ELSE SpreadJobs(SubSeq(jobs, 1, Len(jobs) - 1),
                        [x \in 0..(n - 1) |-> <<>>], n)

JobGroupsContiguous(jobs, max_batches) ==
    LET n == NumberOfBatches(jobs, max_batches)
        size == IF n = 0 THEN 0 ELSE (Len(jobs) + n - 1) \div n
    IN  [x \in 0..(n - 1) |->
            SubSeq(jobs, x * size + 1,
                   IF (x + 1) * size < Len(jobs) THEN (x + 1) * size
                   ELSE Len(jobs))]

\* job_groups after the loops: batch index -> list of jobs.  It is defined
\* for the calls whose `while jobs:` loop ends, max_batches >= 1 or no job;
\* SpecChunkLoop has the loop itself, also for max_batches = 0.
JobGroups(jobs, max_batches) ==
    LET n == NumberOfBatches(jobs, max_batches)
    IN  IF n = 0 THEN <<>>
        ELSE SpreadJobs(jobs, [x \in 0..(n - 1) |-> <<>>], n)

BatchKeyNoIndex(s3_prefix, region, x) == s3_prefix \o <<region, "batch-0">>

\* key_name = f"{s3_prefix}/{region}/{batch}", batch = f"batch-{x}"
BatchKey(s3_prefix, region, x) ==
    s3_prefix \o <<region, "batch-" \o ToString(x)>>

ChunkPutsAtLeastOne(jobs, region, s3_prefix, max_batches) ==
    LET n == NumberOfBatches(jobs, max_batches)
        job_groups == JobGroups(jobs, max_batches)
    IN  IF n = 0
        THEN <<<<BatchKey(s3_prefix, region, 0), JsonDumps(<<>>)>>>>
        ELSE [i \in 1..n |->
                <<BatchKey(s3_prefix, region, i - 1),
                  JsonDumps(job_groups[i - 1])>>]

\* The put_object_ calls of chunk_jobs, in order: <<key, body>>.
ChunkPuts(jobs, region, s3_prefix, max_batches) ==
    LET n == NumberOfBatches(jobs, max_batches)
        job_groups == JobGroups(jobs, max_batches)
    IN  [i \in 1..n |->
            <<BatchKey(s3_prefix, region, i - 1), JsonDumps(job_groups[i - 1])>>]

ApplyPutsAppends(store, puts, count) ==
    LET written == {puts[i][1] : i \in 1..count}
        last(key) == CHOOSE i \in 1..count :
                        /\ puts[i][1] = key
                        /\ \A j \in 1..count : puts[j][1] = key => j <= i
    IN  [key \in DOMAIN store \cup written |->
            IF key \notin written THEN store[key]
            ELSE IF key \notin DOMAIN store THEN puts[last(key)][2]
            ELSE JsonDumps(JsonLoads(store[key])
                           \o JsonLoads(puts[last(key)][2]))]

\* The bucket after the first `count` of the puts, made in order: a key
\* written more than once holds the body of its last put.
ApplyPuts(store, puts, count) ==
    LET written == {puts[i][1] : i \in 1..count}
        last(key) == CHOOSE i \in 1..count :
                        /\ puts[i][1] = key
                        /\ \A j \in 1..count : puts[j][1] = key => j <= i
    IN  [key \in DOMAIN store \cup written |->
            IF key \in written THEN puts[last(key)][2] ELSE store[key]]

(***************************************************************************)
(* make_jobs.                                                              *)
(***************************************************************************)
\* The jobs of one region of the account list: one per listed account.
RegionJobs(action, entry) ==
    [k \in 1..Len(entry.accounts) |->
        Job(action, entry.region, entry.accounts[k])]

\* The put_object_ calls of make_jobs: those of chunk_jobs, region by region.
MakeJobsPuts(action, account_list) ==
    Flatten([i \in 1..Len(account_list) |->
        ChunkPuts(RegionJobs(action, account_list[i]),
                  account_list[i].region, JOBS_PREFIX, MAX_BATCHES)])

MakeJobsKeysFirstRegion(account_list) ==
    [i \in 1..(IF Len(account_list) > 0 THEN 1 ELSE 0) |->
        JOBS_PREFIX \o <<account_list[i].region>>]

\* job_keys: "ssm_tool/jobs/<region>/" for every region of the account list.
MakeJobsKeys(account_list) ==
    [i \in 1..Len(account_list) |-> JOBS_PREFIX \o <<account_list[i].region>>]

(***************************************************************************)
(* post_error.                                                             *)
(***************************************************************************)
Timestamps == 1..MaxTime

\* utcnow() is a count of microseconds; strftime('%Y%m%d-%H%M%S%f') prints
\* every digit of it, and ".txt" follows.
TimestampName(ts) == ToString(ts) \o ".txt"

ErrorKey(caller, ts) == ERRORS_PREFIX \o caller \o <<TimestampName(ts)>>

PostError(store, err, caller, ts) ==
    PutObject(store, ErrorKey(caller, ts), JsonDumps(err))

\* History of the post_error writes: per key, how many and the last body.
NotePost(p, err, caller, ts) ==
    LET key == ErrorKey(caller, ts)
    IN  [k \in DOMAIN p \cup {key} |->
            IF k = key
            THEN [n |-> IF key \in DOMAIN p THEN p[key].n + 1 ELSE 1,
                  body |-> JsonDumps(err)]
            ELSE p[k]]

(***************************************************************************)
(* clean_up_s3.  `fault` names the blob-store call that raises: 0 none,    *)
(* 2i-1 the listing of the i-th prefix, 2i the delete of its keys (no      *)
(* delete call is made for an empty listing).  The exception ends the loop *)
(* and is caught: caught = TRUE, and the caller posts an error.            *)
(***************************************************************************)
RECURSIVE CleanLoop(_, _, _, _)
CleanLoop(store, to_clean, i, fault) ==
    IF i > Len(to_clean) THEN [store |-> store, caught |-> FALSE]
    ELSE IF fault = 2 * i - 1 THEN [store |-> store, caught |-> TRUE]
    ELSE LET keys == ListBucketKeys(store, to_clean[i])
         IN  IF fault = 2 * i /\ keys # {}
             THEN [store |-> store, caught |-> TRUE]
             ELSE CleanLoop(DeleteObjects(store, keys), to_clean, i + 1, fault)

CleanUpErr ==
    [err |-> "Exception caught in clean_up_s3", region |-> "", account |-> ""]

CLEAN_UP_CALLER == <<"clean_up_s3">>

(***************************************************************************)
(* run_job.                                                                *)
(***************************************************************************)
RunJobCaller(job) == <<"run_job", job.action, job.region, job.account>>

RunJobErr(job) ==
    [err |-> "Error in run_job for", region |-> job.region,
     account |-> job.account]

\* The prefixes run_job cleans before it runs the job.
RunJobToClean(job) == <<ERRORS_PREFIX \o RunJobCaller(job)>>

B2N(b) == IF b THEN 1 ELSE 0

\* A blob-store call may raise while the model's budget of faults lasts;
\* `used` counts the faults already chosen in the same invocation.
MayRaise(used) == IF faults + used < budget THEN BOOLEAN ELSE {FALSE}

RunJobCallNoCatch(store, job, cf, cpf, cts, opRaises, pf, ts) ==
    LET cu == CleanLoop(store, RunJobToClean(job), 1, cf)
    IN  [store |-> cu.store,
         ok |-> ~opRaises,
         caught |-> cu.caught,
         cleanPosted |-> FALSE,
         jobPosted |-> FALSE,
         opRan |-> TRUE,
         postRaised |-> FALSE,
         used |-> B2N(cu.caught)]

\* One call of run_job.  cf: the fault of its clean_up_s3; cpf: the
\* post_error of clean_up_s3 raises; cts: its timestamp; opRaises: the remote
\* operation raises; pf: the post_error of run_job raises; ts: its timestamp.
\* ok = FALSE: an exception leaves run_job.
RunJobCall(store, job, cf, cpf, cts, opRaises, pf, ts) ==
    LET cu == CleanLoop(store, RunJobToClean(job), 1, cf)
        cleanPosted == cu.caught /\ ~cpf
        cleanRaised == cu.caught /\ cpf
        store1 == IF cleanPosted
                  THEN PostError(cu.store, CleanUpErr, CLEAN_UP_CALLER, cts)
                  ELSE cu.store
        jobPosted == ~cleanRaised /\ opRaises /\ ~pf
        jobRaised == ~cleanRaised /\ opRaises /\ pf
        store2 == IF jobPosted
                  THEN PostError(store1, RunJobErr(job), RunJobCaller(job), ts)
                  ELSE store1
    IN  [store |-> store2,
         ok |-> ~cleanRaised /\ ~jobRaised,
         caught |-> cu.caught,
         cleanPosted |-> cleanPosted,
         jobPosted |-> jobPosted,
         opRan |-> ~cleanRaised,
         postRaised |-> cleanRaised \/ jobRaised,
         used |-> B2N(cu.caught) + B2N(cleanRaised) + B2N(jobRaised)]

(***************************************************************************)
(* check_for_errors.                                                       *)
(***************************************************************************)
CheckErr ==
    [err |-> "Exception caught in check_for_errors", region |-> "",
     account |-> ""]

CHECK_CALLER == <<"check_for_errors">>

ErrorsDetectedNever(errors) == FALSE

ErrorsDetectedOnce(errors) == errors # {} /\ lastCheck.n = 0

ErrorKeysNamedFirst(keys) ==
    IF keys = {} THEN {} ELSE {CHOOSE key \in keys : TRUE}

\* `for key in keys: errors.append(key["Key"])`: the keys the failure
\* message names.
ErrorKeysNamed(keys) == keys

\* `if errors:` raise SsmToolException
ErrorsDetected(errors) == errors # {}

(***************************************************************************)
(* main of the four tools: the dispatch on the event's "action".           *)
(***************************************************************************)
PARAMETER_TOOL == "ssm_parameter_tool"
RUN_DOCUMENT == "ssm_run_document"
DEPLOY_DOCUMENT == "ssm_deploy_document_tool"
PARAMETER_CLEANER == "ssm_parameter_cleaner"

Tools == {PARAMETER_TOOL, RUN_DOCUMENT, DEPLOY_DOCUMENT, PARAMETER_CLEANER}

\* The event has no "action" key.
NoAction == "<no action>"

\* The actions the if / elif chain of a tool's main compares with.
KnownActions(tool) ==
    IF tool = DEPLOY_DOCUMENT
    THEN {"init", "deploy", "error_check"}
    ELSE {"init", "divide_jobs", "run_job", "error_check"}

\* The three tools that read event.get("action") and end the chain with
\* `else: raise SsmToolException`; the cleaner reads event["action"] in a
\* chain of plain `if`s with no else.
HasElseRaise(tool) == tool # PARAMETER_CLEANER

\* main called with an action none of the tool's branches compares equal
\* to: whether it raises, and what it returns when it does not.  In the
\* cleaner a missing key makes event["action"] raise KeyError, and the
\* except handler raises in its turn; any other action matches no `if` and
\* main returns res, still {}.
MainUnrecognised(tool, action) ==
    IF HasElseRaise(tool)
    THEN [raised |-> TRUE, res |-> "none"]
    ELSE IF action = NoAction
         THEN [raised |-> TRUE, res |-> "none"]
         ELSE [raised |-> FALSE, res |-> "{}"]

(***************************************************************************)
(* The state machine (ssm_parameter_tool_stack.py): init, divide_jobs_map, *)
(* handle_jobs_map (run_jobs_map inside it), error_check.                  *)
(***************************************************************************)
INIT_MAX_ATTEMPTS == 2
DIVIDE_MAX_ATTEMPTS == 2
RUN_JOB_MAX_ATTEMPTS == 1
ERROR_CHECK_MAX_ATTEMPTS == 2

AllDoneButOne(branches) ==
    Cardinality({b \in DOMAIN branches : branches[b].st # "done"}) <= 1

AllDoneSome(branches) == \E b \in DOMAIN branches : branches[b].st = "done"

\* A Map state ends when every one of its iterations has ended.
AllDone(branches) == \A b \in DOMAIN branches : branches[b].st = "done"

\* The input of handle_jobs_map: every run_job event divide_jobs returned.
DivideKeys(d) == UNION {d[i].out : i \in DOMAIN d}

\* `log` records, in order, the jobs the current invocation has passed to
\* run_job.
NewBranch ==
    [st |-> "pending", tries |-> 0, jobs |-> <<>>, idx |-> 0, ts |-> 0,
     log |-> <<>>]

NewBranches(keys) == [key \in keys |-> NewBranch]

\* output_path "$[0]" of handle_jobs_map: the first region's output; there
\* is none when init returned no region.
HandleJobsOutputExists(d) == Len(d) > 0

JobUniverse ==
    {Job(JOB_ACTION, r, a) : r \in Regions, a \in Accounts \cup {"999999999999"}}

NoJobs == [j \in JobUniverse |-> 0]

Total(bag) ==
    LET RECURSIVE Sum(_)
        Sum(S) == IF S = {} THEN 0
                  ELSE LET x == CHOOSE y \in S : TRUE
                       IN  bag[x] + Sum(S \ {x})
    IN  Sum(DOMAIN bag)

(***************************************************************************)
(* Stage actions.  Each is one Lambda invocation (main with the stage's    *)
(* event) together with what the state machine does with its outcome.      *)
(***************************************************************************)

InitFailedGoesOn ==
    IF tries.init < INIT_MAX_ATTEMPTS
    THEN /\ tries' = [tries EXCEPT !.init = @ + 1]
         /\ UNCHANGED <<pc, result>>
    ELSE /\ pc' = "error_check"
         /\ result' = result
         /\ tries' = tries

InitFailedRetriesForever == UNCHANGED <<pc, result, tries>>

\* What the state machine does when the init invocation raised.
InitFailed ==
    IF tries.init < INIT_MAX_ATTEMPTS
    THEN /\ tries' = [tries EXCEPT !.init = @ + 1]
         /\ UNCHANGED <<pc, result>>
    ELSE /\ pc' = "failed"
         /\ result' = "failed"
         /\ tries' = tries

\* main called by the init state with an action it does not know: the
\* SsmToolException is re-raised as Exception and the invocation fails.
InitRejected ==
    /\ startAction \notin KnownActions(PARAMETER_TOOL)
    /\ MainUnrecognised(PARAMETER_TOOL, startAction).raised
    /\ InitFailed
    /\ UNCHANGED <<s3, initOut, divide, posted, faults, postRaised>>

\* main, action "init": clean_up_s3, get_accounts, make_jobs.
InitAccepted ==
    /\ startAction = "init"
    /\ \E cf \in (IF faults < budget THEN 0..4 ELSE {0}) :
       \E cpf \in (IF cf # 0 THEN MayRaise(1) ELSE {FALSE}) :
       \E cts \in (IF cf # 0 /\ ~cpf THEN Timestamps ELSE {1}) :
       \E gf \in (IF cf # 0 /\ cpf THEN {FALSE} ELSE MayRaise(B2N(cf # 0))) :
         LET cu == CleanLoop(s3, <<JOBS_PREFIX, ERRORS_PREFIX>>, 1, cf)
             cleanPosted == cu.caught /\ ~cpf
             cleanRaised == cu.caught /\ cpf
             store1 == IF cleanPosted
                       THEN PostError(cu.store, CleanUpErr, CLEAN_UP_CALLER, cts)
                       ELSE cu.store
             getRaised == ~cleanRaised /\ gf
             account_list == GetObjectAsDict(store1, ACCOUNTS_KEY)
             puts == IF cleanRaised \/ getRaised THEN <<>>
                     ELSE MakeJobsPuts(JOB_ACTION, account_list)
         IN  /\ cu.caught = (cf # 0)
             /\ \E done \in 0..Len(puts) :
                  LET putRaised == done < Len(puts)
                      ok == ~cleanRaised /\ ~getRaised /\ ~putRaised
                      used == B2N(cu.caught) + B2N(cleanRaised)
                              + B2N(getRaised) + B2N(putRaised)
                  IN  /\ faults + used <= budget
                      /\ faults' = faults + used
                      /\ postRaised' = postRaised + B2N(cleanRaised)
                      /\ s3' = ApplyPuts(store1, puts, done)
                      /\ posted' = IF cleanPosted
                                   THEN NotePost(posted, CleanUpErr,
                                                 CLEAN_UP_CALLER, cts)
                                   ELSE posted
                      /\ IF ok
                         THEN /\ initOut' = MakeJobsKeys(account_list)
                              /\ divide' = [i \in 1..Len(account_list) |->
                                              [st |-> "pending", tries |-> 0,
                                               out |-> {}]]
                              /\ IF HandleJobsOutputExists(account_list)
                                 THEN pc' = "divide_jobs" /\ result' = result
                                 ELSE pc' = "failed" /\ result' = "failed"
                              /\ tries' = tries
                         ELSE /\ UNCHANGED <<initOut, divide>>
                              /\ InitFailed

\* The init state: one invocation of the Lambda with the start event.
InitStage ==
    /\ pc = "init"
    /\ InitAccepted \/ InitRejected
    /\ UNCHANGED <<run, lastCheck, executed, raised, errAtStart, budget,
                   startAction, cjVars, mainVars, callVars>>

\* main, action "divide_jobs", for the i-th event init returned.
DivideStage(i) ==
    /\ pc = "divide_jobs"
    /\ divide[i].st = "pending"
    /\ \E lf \in MayRaise(0) :
         /\ faults' = faults + B2N(lf)
         /\ IF lf
            THEN /\ run' = run
                 /\ IF divide[i].tries < DIVIDE_MAX_ATTEMPTS
                    THEN /\ divide' = [divide EXCEPT ![i].tries = @ + 1]
                         /\ UNCHANGED <<pc, result>>
                    ELSE /\ pc' = "failed"
                         /\ result' = "failed"
                         /\ divide' = divide
            ELSE LET d == [divide EXCEPT
                             ![i].st = "done",
                             ![i].out = ListBucketKeys(s3, initOut[i])]
                 IN  /\ divide' = d
                     /\ result' = result
                     /\ IF AllDone(d)
                        THEN /\ run' = NewBranches(DivideKeys(d))
                             /\ pc' = IF DivideKeys(d) = {}
                                      THEN "error_check" ELSE "run_job"
                        ELSE UNCHANGED <<run, pc>>
    /\ UNCHANGED <<s3, tries, initOut, lastCheck, executed, raised, posted,
                   errAtStart, budget, startAction, postRaised, cjVars,
                   mainVars, callVars>>

RunJobFailedRetryAgain(key) ==
    IF run[key].tries < RUN_JOB_MAX_ATTEMPTS + 1
    THEN /\ run' = [run EXCEPT
                      ![key] = [NewBranch EXCEPT !.tries = run[key].tries + 1]]
         /\ UNCHANGED <<pc, result>>
    ELSE /\ pc' = "failed"
         /\ result' = "failed"
         /\ run' = run

\* What the state machine does when a run_job invocation raised.
RunJobFailed(key) ==
    IF run[key].tries < RUN_JOB_MAX_ATTEMPTS
    THEN /\ run' = [run EXCEPT
                      ![key] = [NewBranch EXCEPT !.tries = run[key].tries + 1]]
         /\ UNCHANGED <<pc, result>>
    ELSE /\ pc' = "failed"
         /\ result' = "failed"
         /\ run' = run

\* What it does when the invocation returned {"action": "error_check"}.
RunJobReturned(key, log) ==
    LET r == [run EXCEPT ![key].st = "done", ![key].ts = 0, ![key].log = log]
    IN  /\ run' = r
        /\ pc' = IF AllDone(r) THEN "error_check" ELSE pc
        /\ result' = result

\* main, action "run_job": the invocation cannot read its batch
\* (jobs = app.get_jobs(job_key) raises), or the batch is empty.
RunJobStart(key) ==
    /\ pc = "run_job"
    /\ run[key].st = "pending"
    /\ \E gf \in MayRaise(0) :
         /\ gf \/ key \notin DOMAIN s3 \/ GetObjectAsDict(s3, key) = <<>>
         /\ faults' = faults + B2N(gf)
         /\ IF gf \/ key \notin DOMAIN s3
            THEN RunJobFailed(key)
            ELSE RunJobReturned(key, <<>>)
    /\ UNCHANGED <<s3, tries, initOut, divide, lastCheck, executed, raised,
                   posted, errAtStart, budget, startAction, postRaised,
                   cjVars, mainVars, callVars>>

NextJobFromEnd(jobs, idx) == jobs[Len(jobs) + 1 - idx]

\* `for job in jobs`: the job of the idx-th turn of the loop.
NextJob(jobs, idx) == jobs[idx]

\* main, action "run_job": one turn of `for job in jobs: app.run_job(job)`;
\* the first turn follows jobs = app.get_jobs(job_key).
RunJobStep(key) ==
    /\ pc = "run_job"
    /\ \/ run[key].st = "running"
       \/ /\ run[key].st = "pending"
          /\ key \in DOMAIN s3
          /\ GetObjectAsDict(s3, key) # <<>>
    /\ LET b == run[key]
           jobs == IF b.st = "pending" THEN GetObjectAsDict(s3, key) ELSE b.jobs
           idx == IF b.st = "pending" THEN 1 ELSE b.idx
           job == NextJob(jobs, idx)
       IN  \E cf \in (IF faults < budget THEN 0..2 ELSE {0}) :
           \E cpf \in (IF cf # 0 THEN MayRaise(1) ELSE {FALSE}) :
           \E cts \in (IF cf # 0 /\ ~cpf
                       THEN {t \in Timestamps : t > b.ts} ELSE {1}) :
           \E opRaises \in (IF cf # 0 /\ cpf THEN {FALSE} ELSE BOOLEAN) :
           \E pf \in (IF opRaises THEN MayRaise(B2N(cf # 0)) ELSE {FALSE}) :
           \E ts \in (IF opRaises /\ ~pf
                      THEN {t \in Timestamps :
                              t > (IF cf # 0 THEN cts ELSE b.ts)}
                      ELSE {1}) :
             LET c == RunJobCall(s3, job, cf, cpf, cts, opRaises, pf, ts)
             IN  /\ c.caught = (cf # 0)
                 /\ faults' = faults + c.used
                 /\ postRaised' = postRaised + B2N(c.postRaised)
                 /\ s3' = c.store
                 /\ executed' = [executed EXCEPT ![job] = @ + 1]
                 /\ raised' = IF opRaises THEN [raised EXCEPT ![job] = @ + 1]
                              ELSE raised
                 /\ posted' =
                      LET p1 == IF c.cleanPosted
                                THEN NotePost(posted, CleanUpErr,
                                              CLEAN_UP_CALLER, cts)
                                ELSE posted
                      IN  IF c.jobPosted
                          THEN NotePost(p1, RunJobErr(job), RunJobCaller(job), ts)
                          ELSE p1
                 /\ IF ~c.ok THEN RunJobFailed(key)
                    ELSE IF idx = Len(jobs)
                         THEN RunJobReturned(key, Append(b.log, job))
                    ELSE /\ run' = [run EXCEPT
                                      ![key].st = "running",
                                      ![key].log = Append(b.log, job),
                                      ![key].jobs = jobs,
                                      ![key].idx = idx + 1,
                                      ![key].ts = IF c.jobPosted THEN ts
                                                  ELSE IF c.cleanPosted THEN cts
                                                  ELSE b.ts]
                         /\ UNCHANGED <<pc, result>>
    /\ UNCHANGED <<tries, initOut, divide, lastCheck, errAtStart, budget,
                   startAction, cjVars, mainVars, callVars>>

\* main, action "error_check": check_for_errors.
ErrorCheckStage ==
    /\ pc = "error_check"
    /\ \E lf \in MayRaise(0) :
       \E pf \in (IF lf THEN MayRaise(1) ELSE {FALSE}) :
       \E ts \in (IF lf /\ ~pf THEN Timestamps ELSE {1}) :
         LET keys == ListBucketKeys(s3, ERRORS_PREFIX)
             errors == IF lf THEN {} ELSE ErrorKeysNamed(keys)
             raises == lf \/ ErrorsDetected(errors)
             used == B2N(lf) + B2N(lf /\ pf)
         IN  /\ faults' = faults + used
             /\ postRaised' = postRaised + B2N(lf /\ pf)
             /\ s3' = IF lf /\ ~pf
                      THEN PostError(s3, CheckErr, CHECK_CALLER, ts) ELSE s3
             /\ posted' = IF lf /\ ~pf
                          THEN NotePost(posted, CheckErr, CHECK_CALLER, ts)
                          ELSE posted
             /\ lastCheck' = [listed |-> ~lf, raised |-> raises,
                              errors |-> errors, n |-> lastCheck.n + 1]
             /\ IF ~raises
                THEN /\ pc' = "succeeded"
                     /\ result' = "Success!"
                     /\ tries' = tries
                ELSE IF tries.check < ERROR_CHECK_MAX_ATTEMPTS
                THEN /\ tries' = [tries EXCEPT !.check = @ + 1]
                     /\ UNCHANGED <<pc, result>>
                ELSE /\ pc' = "failed"
                     /\ result' = "failed"
                     /\ tries' = tries
    /\ UNCHANGED <<initOut, divide, run, executed, raised, errAtStart, budget,
                   startAction, cjVars, mainVars, callVars>>

(***************************************************************************)
(* Specification Spec: one execution of the state machine, started on a    *)
(* bucket that holds the account list and what an earlier execution left.  *)
(***************************************************************************)
AccountLists ==
    LET lists == SeqsUpTo(Accounts, MaxAccounts)
    IN  {<<>>}
        \cup {<<[region |-> "us-east-1", accounts |-> a]>> : a \in lists}
        \cup {<<[region |-> "us-east-1", accounts |-> lp[1]],
                [region |-> "us-west-2", accounts |-> lp[2]]>> :
                    lp \in {p \in lists \X lists :
                              Len(p[1]) + Len(p[2]) <= MaxAccounts}}

StaleJob == Job(JOB_ACTION, "us-east-1", "111111111111")

StaleError == JsonDumps(RunJobErr(StaleJob))

\* What an earlier execution may have left in the bucket: nothing, or a
\* batch, an error record and the two "folder" keys.
StaleStores ==
    { <<>>,
      [k \in {BatchKey(JOBS_PREFIX, "us-east-1", 7),
              ErrorKey(RunJobCaller(StaleJob), 1),
              PrefixKey(JOBS_PREFIX), PrefixKey(ERRORS_PREFIX)} |->
          IF k = BatchKey(JOBS_PREFIX, "us-east-1", 7)
          THEN JsonDumps(<<StaleJob>>)
          ELSE IF k = ErrorKey(RunJobCaller(StaleJob), 1) THEN StaleError
          ELSE JsonDumps(<<>>)] }

IdleMain ==
    /\ mTool = PARAMETER_TOOL
    /\ mAction = NoAction
    /\ mPc = "idle"
    /\ mRes = "none"
    /\ mBefore = <<>>

\* Actions an execution is started with: "init", or one main does not know.
StartActions == {"init", "start"}

IdleCall ==
    /\ ssm = <<>>
    /\ uOp = "idle"
    /\ uArgs = <<>>
    /\ uPc = "idle"
    /\ uCalls = <<>>
    /\ uOut = <<>>
    /\ uBefore = <<>>

IdleChunk ==
    /\ cjJobs = <<>>
    /\ cjMax = 0
    /\ cjPc = "idle"
    /\ cjPuts = <<>>
    /\ cjBefore = <<>>

NoHistory ==
    /\ lastCheck = [listed |-> FALSE, raised |-> FALSE, errors |-> {},
                    n |-> 0]
    /\ executed = NoJobs
    /\ raised = NoJobs
    /\ posted = <<>>
    /\ faults = 0
    /\ postRaised = 0

Init ==
    /\ \E stale \in StaleStores, account_list \in AccountLists :
         s3 = PutObject(stale, ACCOUNTS_KEY, JsonDumps(account_list))
    /\ pc = "init"
    /\ tries = [init |-> 0, check |-> 0]
    /\ initOut = <<>>
    /\ divide = <<>>
    /\ run = <<>>
    /\ result = "none"
    /\ errAtStart = 0
    /\ budget = MaxFaults
    /\ startAction \in StartActions
    /\ NoHistory
    /\ IdleChunk
    /\ IdleMain
    /\ IdleCall

Next ==
    \/ InitStage
    \/ \E i \in DOMAIN divide : DivideStage(i)
    \/ \E key \in DOMAIN run : RunJobStart(key)
    \/ \E key \in DOMAIN run : RunJobStep(key)
    \/ ErrorCheckStage

Spec == Init /\ [][Next]_vars

(***************************************************************************)
(* Specification SpecChunk: one call of chunk_jobs on a bounded job list.  *)
(* A put may raise; the exception leaves chunk_jobs with the earlier puts  *)
(* done.                                                                   *)
(***************************************************************************)
IdleRun ==
    /\ pc = "idle"
    /\ tries = [init |-> 0, check |-> 0]
    /\ initOut = <<>>
    /\ divide = <<>>
    /\ run = <<>>
    /\ result = "none"
    /\ errAtStart = 0
    /\ budget = 0
    /\ startAction = "init"
    /\ NoHistory

InitChunk ==
    /\ s3 \in StaleStores
    /\ cjJobs \in SeqsUpTo(JobSet, MaxJobs)
    /\ cjMax \in 1..MaxM
    /\ cjPc = "call"
    /\ cjPuts = <<>>
    /\ cjBefore = s3
    /\ IdleRun
    /\ IdleMain
    /\ IdleCall

ChunkJobsCall ==
    /\ cjPc = "call"
    /\ LET puts == ChunkPuts(cjJobs, "us-east-1", JOBS_PREFIX, cjMax)
       IN  \E done \in 0..Len(puts) :
              /\ s3' = ApplyPuts(s3, puts, done)
              /\ cjPuts' = SubSeq(puts, 1, done)
              /\ cjPc' = IF done = Len(puts) THEN "returned" ELSE "raised"
    /\ UNCHANGED <<cjJobs, cjMax, cjBefore, runVars, mainVars, callVars>>

NextChunk == ChunkJobsCall

SpecChunk == InitChunk /\ [][NextChunk]_vars

(***************************************************************************)
(* Specification SpecBatch: one run_job invocation on a batch of several   *)
(* jobs (a region of more than MAX_BATCHES accounts; the sibling batches   *)
(* are left out), followed by error_check.  Sibling branches may already   *)
(* have posted error records.                                              *)
(***************************************************************************)
BATCH_KEY == BatchKey(JOBS_PREFIX, "us-east-1", 0)

SiblingErrors ==
    { {} } \cup { {ErrorKey(RunJobCaller(j), 1)} : j \in JobSet }

InitBatch ==
    /\ \E jobs \in SeqsUpTo(JobSet, MaxBatchJobs) \ {<<>>},
          siblings \in SiblingErrors :
         /\ s3 = [k \in {BATCH_KEY} \cup siblings |->
                    IF k = BATCH_KEY THEN JsonDumps(jobs) ELSE StaleError]
         /\ errAtStart = Cardinality(siblings)
    /\ pc = "run_job"
    /\ tries = [init |-> 0, check |-> 0]
    /\ initOut = <<JOBS_PREFIX \o <<"us-east-1">>>>
    /\ divide = <<[st |-> "done", tries |-> 0, out |-> {BATCH_KEY}]>>
    /\ run = NewBranches({BATCH_KEY})
    /\ result = "none"
    /\ budget = MaxFaults
    /\ startAction = "init"
    /\ NoHistory
    /\ IdleChunk
    /\ IdleMain
    /\ IdleCall

NextBatch ==
    \/ RunJobStart(BATCH_KEY)
    \/ RunJobStep(BATCH_KEY)
    \/ ErrorCheckStage

SpecBatch == InitBatch /\ [][NextBatch]_vars

(***************************************************************************)
(* Specification SpecRetry: one execution during an outage of the blob     *)
(* store: up to MaxOutage of its calls raise, enough for a stage to fail   *)
(* on every attempt.                                                       *)
(***************************************************************************)
RetryAccountLists ==
    { <<[region |-> "us-east-1", accounts |-> <<"111111111111">>]>>,
      <<[region |-> "us-east-1", accounts |-> <<"111111111111">>],
        [region |-> "us-west-2", accounts |-> <<"222222222222">>]>> }

InitRetry ==
    /\ \E account_list \in RetryAccountLists :
         s3 = PutObject(<<>>, ACCOUNTS_KEY, JsonDumps(account_list))
    /\ pc = "init"
    /\ tries = [init |-> 0, check |-> 0]
    /\ initOut = <<>>
    /\ divide = <<>>
    /\ run = <<>>
    /\ result = "none"
    /\ errAtStart = 0
    /\ budget = MaxOutage
    /\ startAction \in StartActions
    /\ NoHistory
    /\ IdleChunk
    /\ IdleMain
    /\ IdleCall

SpecRetry == InitRetry /\ [][Next]_vars

(***************************************************************************)
(* Specification SpecMain: one call of a tool's main with an event whose   *)
(* action the tool does not know.                                          *)
(***************************************************************************)
EventActions ==
    UNION {KnownActions(tool) : tool \in Tools}
    \cup {NoAction, "", "Init", "start", "fix_tags", "create"}

InitMain ==
    /\ s3 \in StaleStores
    /\ mTool \in Tools
    /\ mAction \in EventActions \ KnownActions(mTool)
    /\ mPc = "call"
    /\ mRes = "none"
    /\ mBefore = s3
    /\ IdleRun
    /\ IdleChunk
    /\ IdleCall

MainCall ==
    /\ mPc = "call"
    /\ LET out == MainUnrecognised(mTool, mAction)
       IN  /\ mPc' = IF out.raised THEN "raised" ELSE "returned"
           /\ mRes' = out.res
    /\ UNCHANGED <<s3, mTool, mAction, mBefore, cjVars, runVars, callVars>>

NextMain == MainCall

SpecMain == InitMain /\ [][NextMain]_vars

(***************************************************************************)
(* SsmUtilities.  `ssm` holds the parameters the provider has: name ->     *)
(* [value, tags], tags a function from tag keys to values.  A tag list is  *)
(* a sequence of [Key, Value] records, as the methods receive it.          *)
(***************************************************************************)
TagKeys == {"t_environment", "t_dcl"}
TagValues == {"dev", "DEV"}

\* Tag sets a parameter may carry.
TagSets == UNION {[K -> TagValues] : K \in SUBSET TagKeys}

\* Tag lists a caller may pass: no key twice, at least one tag.
TagLists ==
    {l \in SeqsUpTo([Key : TagKeys, Value : TagValues], Cardinality(TagKeys)) :
        /\ l # <<>>
        /\ \A i, j \in DOMAIN l : l[i].Key = l[j].Key => i = j}

\* The tag set a tag list denotes.
TagsOf(tags) ==
    [k \in {tags[i].Key : i \in DOMAIN tags} |->
        (CHOOSE t \in {tags[i] : i \in DOMAIN tags} : t.Key = k).Value]

\* client.remove_tags_from_resource(ResourceId=name, TagKeys=tag_keys)
RemoveTagsFromResource(store, name, tag_keys) ==
    [store EXCEPT ![name].tags = [k \in DOMAIN @ \ tag_keys |-> @[k]]]

\* client.add_tags_to_resource(ResourceId=name, Tags=tags)
AddTagsToResource(store, name, tags) ==
    LET new == TagsOf(tags)
    IN  [store EXCEPT ![name].tags =
            [k \in DOMAIN @ \cup DOMAIN new |->
                IF k \in DOMAIN new THEN new[k] ELSE @[k]]]

UpdateTagKeysAll(store, name, tags) == DOMAIN store[name].tags

\* TagKeys=[item["Key"] for item in tags]
UpdateTagKeys(store, name, tags) == {tags[i].Key : i \in DOMAIN tags}

\* update_tags_on_parameter.  fault: 0 no call raises, 1 the removal
\* raises, 2 the addition raises.
UpdateTagsOnParameter(store, name, tags, fault) ==
    LET removed == RemoveTagsFromResource(store, name,
                                          UpdateTagKeys(store, name, tags))
    IN  IF fault = 1 \/ name \notin DOMAIN store
        THEN [store |-> store, raised |-> TRUE,
              calls |-> <<"remove_tags_from_resource">>]
        ELSE IF fault = 2
        THEN [store |-> removed, raised |-> TRUE,
              calls |-> <<"remove_tags_from_resource",
                          "add_tags_to_resource">>]
        ELSE [store |-> AddTagsToResource(removed, name, tags),
              raised |-> FALSE,
              calls |-> <<"remove_tags_from_resource",
                          "add_tags_to_resource">>]

\* `limit = 10`: names per provider call.
limit == 10

ChunksFullOnly(names) ==
    [c \in 1..(Len(names) \div limit) |->
        SubSeq(names, (c - 1) * limit + 1, c * limit)]

\* for i in range(0, len(names), limit): chunks.append(names[i: i + limit])
Chunks(names) ==
    [c \in 1..((Len(names) + limit - 1) \div limit) |->
        SubSeq(names, (c - 1) * limit + 1,
               IF c * limit < Len(names) THEN c * limit ELSE Len(names))]

\* client.delete_parameters(Names=chunk): the names that existed are
\* deleted and reported, the others are reported invalid.
DeleteParameters(store, chunk) ==
    [store |-> [n \in DOMAIN store \ {chunk[i] : i \in DOMAIN chunk} |->
                   store[n]],
     res |-> [DeletedParameters |->
                  SelectSeq(chunk, LAMBDA n : n \in DOMAIN store),
              InvalidParameters |->
                  SelectSeq(chunk, LAMBDA n : n \notin DOMAIN store)]]

GetParametersAll(store, chunk) ==
    [Parameters |-> [i \in DOMAIN chunk |-> [Name |-> chunk[i], Value |-> ""]],
     InvalidParameters |-> <<>>]

\* client.get_parameters(Names=chunk): the parameters found; the names not
\* found are reported as InvalidParameters.
GetParameters(store, chunk) ==
    LET found == SelectSeq(chunk, LAMBDA n : n \in DOMAIN store)
    IN  [Parameters |-> [i \in DOMAIN found |->
                            [Name |-> found[i], Value |-> store[found[i]].value]],
         InvalidParameters |->
             SelectSeq(chunk, LAMBDA n : n \notin DOMAIN store)]

\* put_parameter_ (the name exists: Overwrite=True, the tags stay) and
\* put_parameter_with_tags (the name is new).  `fails`: the provider call
\* raises, and so does the method; otherwise it returns True.
PutParameterSwallows(store, name, value, tags, fails) ==
    [store |-> store, raised |-> FALSE, updated |-> TRUE]

PutParameter(store, name, value, tags, fails) ==
    IF fails THEN [store |-> store, raised |-> TRUE, updated |-> FALSE]
    ELSE [store |-> [n \in DOMAIN store \cup {name} |->
                        IF n # name THEN store[n]
                        ELSE [value |-> value,
                              tags |-> IF name \in DOMAIN store
                                       THEN store[name].tags ELSE tags]],
          raised |-> FALSE, updated |-> TRUE]

\* A provider call as the history keeps it: the client method, the names
\* passed, and whether it returned.
ProviderCall(op, names, ok) == [op |-> op, names |-> names, ok |-> ok]

\* delete_parameters_ as one step: chunk after chunk; `fault` is the number
\* of the provider call that raises (0: none).
RECURSIVE DeleteChunks(_, _, _, _)
DeleteChunks(store, chunks, c, fault) ==
    IF c > Len(chunks) THEN [store |-> store, raised |-> FALSE, calls |-> <<>>]
    ELSE IF c = fault
    THEN [store |-> store, raised |-> TRUE,
          calls |-> <<ProviderCall("delete_parameters", chunks[c], FALSE)>>]
    ELSE LET d == DeleteParameters(store, chunks[c])
             rest == DeleteChunks(d.store, chunks, c + 1, fault)
         IN  [store |-> rest.store, raised |-> rest.raised,
              calls |-> <<ProviderCall("delete_parameters", chunks[c], TRUE)>>
                        \o rest.calls]

(***************************************************************************)
(* Specification SpecSsm: one call of a method of SsmUtilities, or of a    *)
(* method of the parameter tool built on them, against a bounded set of    *)
(* parameters.  A provider call may raise.                                 *)
(***************************************************************************)
UPDATE_TAGS == "update_tags_on_parameter"

ParamName(i) == "param-" \o ToString(i)

InitUpdateTags ==
    /\ uOp = UPDATE_TAGS
    /\ \E old \in TagSets :
         ssm = [n \in {ParamName(1)} |-> [value |-> "v", tags |-> old]]
    /\ \E tags \in TagLists : uArgs = [name |-> ParamName(1), tags |-> tags]

DELETE_PARAMETERS == "delete_parameters_"
GET_PARAMETERS == "get_parameters_"

\* The first n parameter names, in order.
Names(n) == [i \in 1..n |-> ParamName(i)]

\* Which of the names exist: all of them (0), or every (k+1)-th.
Existing(n, k) ==
    {ParamName(i) : i \in {j \in 1..n : k = 0 \/ j % (k + 1) = 0}}

ParamValue(name) == "value of " \o name

InitChunked ==
    /\ uOp \in {DELETE_PARAMETERS, GET_PARAMETERS}
    /\ \E n \in 0..MaxNames, k \in 0..MaxStride :
         /\ uArgs = [names |-> Names(n)]
         /\ ssm = [name \in Existing(n, k) |->
                     [value |-> ParamValue(name), tags |-> <<>>]]

RENAME_PARAMETERS == "rename_parameters"

\* names: {"old_name": "new_name"}, as the list of its items in key order.
RenameMaps ==
    {m \in SeqsUpTo([old : {ParamName(1), ParamName(2)},
                     new : {ParamName(3), ParamName(4)}], MaxRenames) :
        \A i, j \in DOMAIN m : m[i].old = m[j].old => i = j}

InitRename ==
    /\ uOp = RENAME_PARAMETERS
    /\ \E m \in RenameMaps : uArgs = [names |-> m]
    /\ \E have \in SUBSET {ParamName(1), ParamName(2), ParamName(3)},
          tags \in {<<>>, [k \in {"t_environment"} |-> "dev"]} :
         ssm = [name \in have |-> [value |-> ParamValue(name), tags |-> tags]]

InitSsm ==
    /\ \/ InitUpdateTags
       \/ InitChunked
       \/ InitRename
    /\ uPc = "call"
    /\ uCalls = <<>>
    /\ uOut = <<>>
    /\ uBefore = ssm
    /\ s3 = <<>>
    /\ IdleRun
    /\ IdleChunk
    /\ IdleMain

UpdateTagsCall ==
    /\ uOp = UPDATE_TAGS
    /\ uPc = "call"
    /\ \E fault \in 0..2 :
         LET c == UpdateTagsOnParameter(ssm, uArgs.name, uArgs.tags, fault)
         IN  /\ ssm' = c.store
             /\ uCalls' = c.calls
             /\ uPc' = IF c.raised THEN "raised" ELSE "returned"
             /\ uOut' = IF c.raised THEN uOut ELSE <<TRUE>>
    /\ UNCHANGED <<s3, uOp, uArgs, uBefore, cjVars, runVars, mainVars>>

\* delete_parameters_: one turn of `for chunk in chunks`, or the return when
\* no chunk is left.  A provider call that raises ends the method.
DeleteParametersStep ==
    /\ uOp = DELETE_PARAMETERS
    /\ uPc \in {"call", "running"}
    /\ LET chunks == Chunks(uArgs.names)
           output == IF uPc = "call"
                     THEN [deleted |-> <<>>, invalid |-> <<>>] ELSE uOut
           c == Len(uCalls) + 1
       IN  IF c > Len(chunks)
           THEN /\ uPc' = "returned"
                /\ uOut' = output
                /\ UNCHANGED <<ssm, uCalls>>
           ELSE \E raises \in BOOLEAN :
                  IF raises
                  THEN /\ uPc' = "raised"
                       /\ uCalls' = Append(uCalls, [names |-> chunks[c],
                                                    res |-> "raised"])
                       /\ uOut' = output
                       /\ ssm' = ssm
                  ELSE LET d == DeleteParameters(ssm, chunks[c])
                       IN  /\ uPc' = "running"
                           /\ uCalls' = Append(uCalls, [names |-> chunks[c],
                                                        res |-> d.res])
                           /\ uOut' =
                                [deleted |-> output.deleted
                                               \o d.res.DeletedParameters,
                                 invalid |-> output.invalid
                                               \o d.res.InvalidParameters]
                           /\ ssm' = d.store
    /\ UNCHANGED <<s3, uOp, uArgs, uBefore, cjVars, runVars, mainVars>>

\* get_parameters_: one turn of `for chunk in chunks`, or the return.
GetParametersStep ==
    /\ uOp = GET_PARAMETERS
    /\ uPc \in {"call", "running"}
    /\ LET chunks == Chunks(uArgs.names)
           c == Len(uCalls) + 1
       IN  IF c > Len(chunks)
           THEN /\ uPc' = "returned"
                /\ UNCHANGED <<uOut, uCalls>>
           ELSE \E raises \in BOOLEAN :
                  IF raises
                  THEN /\ uPc' = "raised"
                       /\ uCalls' = Append(uCalls, [names |-> chunks[c],
                                                    res |-> "raised"])
                       /\ uOut' = uOut
                  ELSE LET res == GetParameters(ssm, chunks[c])
                       IN  /\ uPc' = "running"
                           /\ uCalls' = Append(uCalls, [names |-> chunks[c],
                                                        res |-> res])
                           /\ uOut' = uOut \o res.Parameters
    /\ UNCHANGED <<s3, ssm, uOp, uArgs, uBefore, cjVars, runVars, mainVars>>

\* names[param["Name"]]
NewName(names, old) ==
    (CHOOSE item \in {names[i] : i \in DOMAIN names} : item.old = old).new

\* rename_parameters: params = ssm_util.get_parameters_(list(names.keys())).
RenameGet ==
    /\ uOp = RENAME_PARAMETERS
    /\ uPc = "call"
    /\ LET keys == [i \in DOMAIN uArgs.names |-> uArgs.names[i].old]
           chunks == Chunks(keys)
       IN  \E fault \in 0..Len(chunks) :
             /\ uCalls' = [c \in 1..(IF fault = 0 THEN Len(chunks) ELSE fault)
                             |-> ProviderCall("get_parameters", chunks[c],
                                              c # fault)]
             /\ uPc' = IF fault = 0 THEN "running" ELSE "raised"
             /\ uOut' = [params |-> IF fault # 0 THEN <<>>
                                    ELSE Flatten([c \in DOMAIN chunks |->
                                           GetParameters(ssm, chunks[c])
                                               .Parameters]),
                         delete_list |-> <<>>]
    /\ UNCHANGED <<s3, ssm, uOp, uArgs, uBefore, cjVars, runVars, mainVars>>

\* rename_parameters: one turn of `for param in params`.  fault: 0 none,
\* 1 check_parameter raises, 2 list_tags_for_resource_ raises, 3 the put
\* raises.
RenameTurn ==
    /\ uOp = RENAME_PARAMETERS
    /\ uPc = "running"
    /\ Len(uOut.delete_list) < Len(uOut.params)
    /\ LET param == uOut.params[Len(uOut.delete_list) + 1]
           new_name == NewName(uArgs.names, param.Name)
           exists == new_name \in DOMAIN ssm
           check(ok) == ProviderCall("get_parameter", <<new_name>>, ok)
           list(ok) ==
               ProviderCall("list_tags_for_resource", <<param.Name>>, ok)
           put(ok) == ProviderCall("put_parameter", <<new_name>>, ok)
           tags == ssm[param.Name].tags
       IN  \E fault \in (IF exists THEN {0, 1, 3} ELSE 0..3) :
             IF fault \in {1, 2}
             THEN /\ uPc' = "raised"
                  /\ uCalls' =
                       uCalls \o <<check(fault # 1)>>
                       \o (IF fault = 2 THEN <<list(FALSE)>> ELSE <<>>)
                  /\ UNCHANGED <<ssm, uOut>>
             ELSE LET w == PutParameter(ssm, new_name, param.Value, tags,
                                        fault = 3)
                  IN  /\ ssm' = w.store
                      /\ uCalls' =
                           uCalls \o <<check(TRUE)>>
                           \o (IF exists THEN <<>> ELSE <<list(TRUE)>>)
                           \o <<put(fault # 3)>>
                      /\ uPc' = IF w.raised \/ ~w.updated
                                THEN "raised" ELSE "running"
                      /\ uOut' = IF w.raised \/ ~w.updated THEN uOut
                                 ELSE [uOut EXCEPT !.delete_list =
                                          Append(@, param.Name)]
    /\ UNCHANGED <<s3, uOp, uArgs, uBefore, cjVars, runVars, mainVars>>

\* rename_parameters after the loop: `if delete_list:` delete_parameters_.
RenameDelete ==
    /\ uOp = RENAME_PARAMETERS
    /\ uPc = "running"
    /\ Len(uOut.delete_list) = Len(uOut.params)
    /\ LET chunks == Chunks(uOut.delete_list)
       IN  \E fault \in 0..Len(chunks) :
             LET d == DeleteChunks(ssm, chunks, 1, fault)
             IN  /\ ssm' = d.store
                 /\ uCalls' = uCalls \o d.calls
                 /\ uPc' = IF d.raised THEN "raised" ELSE "returned"
    /\ UNCHANGED <<s3, uOp, uArgs, uOut, uBefore, cjVars, runVars, mainVars>>

NextSsm ==
    \/ UpdateTagsCall
    \/ RenameGet
    \/ RenameTurn
    \/ RenameDelete
    \/ DeleteParametersStep
    \/ GetParametersStep

SpecSsm == InitSsm /\ [][NextSsm]_vars

(***************************************************************************)
(* Specification SpecCheck: the Lambda invoked with action "error_check",  *)
(* again and again, on a bucket that holds any of a few error records.     *)
(***************************************************************************)
CheckErrorKeys ==
    {ErrorKey(RunJobCaller(j), 2) : j \in JobSet}
    \cup {ErrorKey(CLEAN_UP_CALLER, 1)}

CheckStores ==
    {[k \in DOMAIN stale \cup extra |->
         IF k \in DOMAIN stale THEN stale[k] ELSE StaleError] :
       stale \in StaleStores, extra \in SUBSET CheckErrorKeys}

InitCheck ==
    /\ s3 \in CheckStores
    /\ pc = "error_check"
    /\ tries = [init |-> 0, check |-> 0]
    /\ initOut = <<>>
    /\ divide = <<>>
    /\ run = <<>>
    /\ result = "none"
    /\ errAtStart = Cardinality(ListBucketKeys(s3, ERRORS_PREFIX))
    /\ budget = MaxFaults
    /\ startAction = "init"
    /\ NoHistory
    /\ IdleChunk
    /\ IdleMain
    /\ IdleCall

\* main is called with action "error_check" once more, after a call that
\* returned {"result": "Success!"}.
ErrorCheckAgain ==
    /\ pc = "succeeded"
    /\ lastCheck.n < MaxChecks
    /\ pc' = "error_check"
    /\ result' = "none"
    /\ UNCHANGED <<s3, tries, initOut, divide, run, lastCheck, executed,
                   raised, posted, errAtStart, faults, budget, startAction,
                   postRaised, cjVars, mainVars, callVars>>

NextCheck ==
    \/ ErrorCheckStage
    \/ ErrorCheckAgain

SpecCheck == InitCheck /\ [][NextCheck]_vars

(***************************************************************************)
(* Specification SpecScenario: chunk_jobs called by make_jobs              *)
(* (max_batches = 100) on a region of 230 accounts.                        *)
(***************************************************************************)
\* 230 jobs: the first k for one account, the others for the other.
ScenarioJobs(k) ==
    [i \in 1..230 |->
        Job(JOB_ACTION, "us-east-1",
            IF i <= k THEN "111111111111" ELSE "222222222222")]

InitScenario ==
    /\ s3 = <<>>
    /\ \E k \in 0..MaxMix : cjJobs = ScenarioJobs(k)
    /\ cjMax = MAX_BATCHES
    /\ cjPc = "call"
    /\ cjPuts = <<>>
    /\ cjBefore = s3
    /\ IdleRun
    /\ IdleMain
    /\ IdleCall

SpecScenario == InitScenario /\ [][NextChunk]_vars

(***************************************************************************)
(* make_jobs of the run-document tool.  Every job placed in `jobs` holds   *)
(* a reference to the one dict `args`; json.dumps reads through it when    *)
(* chunk_jobs persists the region's batches.                               *)
(***************************************************************************)
RUN_DOCUMENT_JOBS_PREFIX == <<"ssm_tool", "run_document", "jobs">>

\* range(0, len(instances), 50)
INSTANCE_BATCH == 50

ChunkInstancesFullOnly(instances) ==
    [c \in 1..(Len(instances) \div INSTANCE_BATCH) |->
        SubSeq(instances, (c - 1) * INSTANCE_BATCH + 1, c * INSTANCE_BATCH)]

\* chunk_instances
ChunkInstances(instances) ==
    [c \in 1..((Len(instances) + INSTANCE_BATCH - 1) \div INSTANCE_BATCH) |->
        SubSeq(instances, (c - 1) * INSTANCE_BATCH + 1,
               IF c * INSTANCE_BATCH < Len(instances)
               THEN c * INSTANCE_BATCH ELSE Len(instances))]

\* The two inner loops of make_jobs for one region, in order: the
\* (account, batch) pairs for which `args["instance_ids"] = batch` and
\* `jobs.append(...)` are executed.
RegionBatches(entry) ==
    Flatten([a \in DOMAIN entry.accounts |->
        LET batches == ChunkInstances(entry.accounts[a].instance_ids)
        IN  [b \in DOMAIN batches |->
                [account |-> entry.accounts[a].account,
                 batch |-> batches[b]]]])

\* `args` after the inner loops: its instance_ids is the batch assigned
\* last, or what it was when no batch was assigned.
ArgsAfterRegion(args, entry) ==
    LET rb == RegionBatches(entry)
    IN  IF rb = <<>> THEN args
        ELSE [args EXCEPT !.instance_ids = rb[Len(rb)].batch]

\* `jobs` as json.dumps sees it in chunk_jobs: one job per (account, batch),
\* each with the value `args` has by then.
RunDocumentJobs(args, entry) ==
    LET rb == RegionBatches(entry)
    IN  [i \in DOMAIN rb |->
            [region |-> entry.region, account |-> rb[i].account,
             args |-> ArgsAfterRegion(args, entry)]]

(***************************************************************************)
(* Specification SpecRunDocument: one call of make_jobs of the             *)
(* run-document tool on a bounded instance list, region after region.      *)
(***************************************************************************)
MAKE_JOBS == "make_jobs"

InstanceId(region, account, k) ==
    "i-" \o region \o "-" \o account \o "-" \o ToString(k)

\* Numbers of instances an account may have: a few, as many as a batch
\* holds, or one more.
InstanceCounts == 0..MaxInstances \cup {INSTANCE_BATCH, INSTANCE_BATCH + 1}

AccountOrder == <<"111111111111", "222222222222">>

\* A region of the instance list with its first Len(counts) accounts.
RegionEntry(region, counts) ==
    [region |-> region,
     accounts |-> [a \in DOMAIN counts |->
                    [account |-> AccountOrder[a],
                     instance_ids |->
                         [k \in 1..counts[a] |->
                             InstanceId(region, AccountOrder[a], k)]]]]

InstanceLists ==
    LET counts == SeqsUpTo(InstanceCounts, Len(AccountOrder))
    IN  {<<RegionEntry("us-east-1", c)>> : c \in counts}
        \cup {<<RegionEntry("us-east-1", c[1]), RegionEntry("us-west-2", c[2])>> :
                 c \in counts \X counts}

EventArgs ==
    [document |-> "CrowdStrikeFalconInstall-ubuntu", instance_ids |-> <<>>]

InitRunDocument ==
    /\ s3 = <<>>
    /\ ssm = <<>>
    /\ uOp = MAKE_JOBS
    /\ \E instance_list \in InstanceLists :
         uArgs = [args |-> EventArgs, instance_list |-> instance_list]
    /\ uPc = "call"
    /\ uCalls = <<>>
    /\ uOut = [args |-> EventArgs, job_keys |-> <<>>]
    /\ uBefore = <<>>
    /\ IdleRun
    /\ IdleChunk
    /\ IdleMain

\* make_jobs: one turn of `for region in instance_list` (the jobs of the
\* region, chunk_jobs, job_keys.append), or the return after the last.  A
\* put_object_ of chunk_jobs may raise and ends make_jobs.
MakeJobsRegion ==
    /\ uOp = MAKE_JOBS
    /\ uPc \in {"call", "running"}
    /\ LET r == Len(uOut.job_keys) + 1
       IN  IF r > Len(uArgs.instance_list)
           THEN /\ uPc' = "returned"
                /\ UNCHANGED <<s3, uCalls, uOut>>
           ELSE LET entry == uArgs.instance_list[r]
                    jobs == RunDocumentJobs(uOut.args, entry)
                    puts == ChunkPuts(jobs, entry.region,
                                      RUN_DOCUMENT_JOBS_PREFIX, MAX_BATCHES)
                IN  \E done \in 0..Len(puts) :
                      /\ s3' = ApplyPuts(s3, puts, done)
                      /\ uCalls' = uCalls \o SubSeq(puts, 1, done)
                      /\ IF done < Len(puts)
                         THEN /\ uPc' = "raised"
                              /\ uOut' = [uOut EXCEPT !.args =
                                             ArgsAfterRegion(@, entry)]
                         ELSE /\ uPc' = "running"
                              /\ uOut' =
                                   [args |-> ArgsAfterRegion(uOut.args, entry),
                                    job_keys |->
                                        Append(uOut.job_keys,
                                               RUN_DOCUMENT_JOBS_PREFIX
                                                   \o <<entry.region, "">>)]
    /\ UNCHANGED <<ssm, uOp, uArgs, uBefore, cjVars, runVars, mainVars>>

NextRunDocument == MakeJobsRegion

SpecRunDocument == InitRunDocument /\ [][NextRunDocument]_vars

(***************************************************************************)
(* SSM documents of one region.  A document has its versions, in order of  *)
(* creation (version v is versions[v]), a default version, and the         *)
(* accounts it is shared with.  The provider's calls are modelled by what  *)
(* the client methods of SsmUtilities expect from them.                    *)
(***************************************************************************)
DEPLOY_ERRORS_PREFIX == <<"ssm_tool", "deploy_document", "errors">>

\* A provider call on a document as the history keeps it: the client method,
\* the document, and how it ended ("ok", or the exception).
DocumentCall(op, name, outcome) == [op |-> op, name |-> name, outcome |-> outcome]

DocumentExistsAlways(store, name) == TRUE

\* describe_document answers for a document of the region and raises
\* InvalidDocument for any other name.
DocumentExists(store, name) == name \in DOMAIN store

\* get_document: the description ({} when the provider raises
\* InvalidDocument), or the exception of any other failure.
GetDocument(store, name, fails) ==
    IF fails
    THEN [res |-> FALSE, raised |-> TRUE,
          calls |-> <<DocumentCall("describe_document", name, "error")>>]
    ELSE IF DocumentExists(store, name)
    THEN [res |-> TRUE, raised |-> FALSE,
          calls |-> <<DocumentCall("describe_document", name, "ok")>>]
    ELSE [res |-> FALSE, raised |-> FALSE,
          calls |-> <<DocumentCall("describe_document", name,
                                   "InvalidDocument")>>]

\* How update_document with DocumentVersion = "$LATEST" can end: the content
\* of the latest version is a duplicate; the content of an older version is
\* one or not, as the provider decides; any call can fail otherwise.
UpdateDocumentOutcomes(store, name, content) ==
    IF name \notin DOMAIN store THEN {"error"}
    ELSE LET versions == store[name].versions
         IN  IF versions[Len(versions)] = content
             THEN {"DuplicateDocumentContent", "error"}
             ELSE IF \E v \in DOMAIN versions : versions[v] = content
             THEN {"DuplicateDocumentContent", "ok", "error"}
             ELSE {"ok", "error"}

\* update_document: a new version with the content, numbered after the last.
UpdateDocument(store, name, content) ==
    [store EXCEPT ![name].versions = Append(@, content)]

SetDefaultVersionNoop(store, name, version) == store

\* update_document_default_version.
SetDefaultVersion(store, name, version) ==
    [store EXCEPT ![name].default = version]

\* update_document_set_default.  `outcome` is how update_document ends and
\* `default_fails` whether update_document_default_version raises.
UpdateDocumentSetDefault(store, name, content, outcome, default_fails) ==
    IF outcome = "DuplicateDocumentContent"
    THEN [store |-> store, raised |-> FALSE, out |-> <<TRUE>>,
          calls |-> <<DocumentCall("update_document", name, outcome)>>]
    ELSE IF outcome = "error"
    THEN [store |-> store, raised |-> TRUE, out |-> <<>>,
          calls |-> <<DocumentCall("update_document", name, outcome)>>]
    ELSE LET updated == UpdateDocument(store, name, content)
             new_version == Len(updated[name].versions)
         IN  IF default_fails
             THEN [store |-> updated, raised |-> TRUE, out |-> <<>>,
                   calls |-> <<DocumentCall("update_document", name, "ok"),
                               DocumentCall("update_document_default_version",
                                            name, "error")>>]
             ELSE [store |-> SetDefaultVersion(updated, name, new_version),
                   raised |-> FALSE, out |-> <<TRUE>>,
                   calls |-> <<DocumentCall("update_document", name, "ok"),
                               DocumentCall("update_document_default_version",
                                            name, "ok")>>]

\* create_command_document: the provider refuses a name it already has.
CreateCommandDocument(store, name, content, fails) ==
    IF fails \/ name \in DOMAIN store
    THEN [store |-> store, raised |-> TRUE, out |-> <<>>,
          calls |-> <<DocumentCall("create_document", name, "error")>>]
    ELSE [store |-> [n \in DOMAIN store \cup {name} |->
                        IF n = name
                        THEN [versions |-> <<content>>, default |-> 1,
                              shared |-> {}]
                        ELSE store[n]],
          raised |-> FALSE, out |-> <<TRUE>>,
          calls |-> <<DocumentCall("create_document", name, "ok")>>]

share_limit == 20

\* share_document: accounts[i: i + limit] for i in range(0, len, limit).
ShareChunks(accounts) ==
    [c \in 1..((Len(accounts) + share_limit - 1) \div share_limit) |->
        SubSeq(accounts, (c - 1) * share_limit + 1,
               IF c * share_limit < Len(accounts) THEN c * share_limit
               ELSE Len(accounts))]

\* share_document with the accounts of one region (one chunk: the model's
\* account lists are shorter than the limit); no provider call for no
\* account.
ShareDocument(store, name, accounts, fails) ==
    IF ShareChunks(accounts) = <<>>
    THEN [store |-> store, raised |-> FALSE, out |-> <<TRUE>>, calls |-> <<>>]
    ELSE IF fails \/ name \notin DOMAIN store
    THEN [store |-> store, raised |-> TRUE, out |-> <<>>,
          calls |-> <<DocumentCall("modify_document_permission", name,
                                   "error")>>]
    ELSE [store |-> [store EXCEPT ![name].shared =
                        @ \cup {accounts[i] : i \in DOMAIN accounts}],
          raised |-> FALSE, out |-> <<TRUE>>,
          calls |-> <<DocumentCall("modify_document_permission", name,
                                   "ok")>>]

\* `if accounts:` of deploy_documents.
ShareWanted(accounts) == accounts # <<>>

\* One turn of `for document in documents` of deploy_documents: get_document,
\* then the update or the creation, then the sharing.  An exception ends the
\* turn.  `get_fails`, `outcome`, `default_fails` and `share_fails` say how
\* the provider calls end.
DeployDocument(store, document, accounts, get_fails, outcome, default_fails, share_fails) ==
    LET name == document.name
        get == GetDocument(store, name, get_fails)
    IN  IF get.raised THEN [store |-> store, raised |-> TRUE,
                            calls |-> get.calls]
        ELSE LET write == IF get.res
                          THEN UpdateDocumentSetDefault(store, name,
                                   document.content, outcome, default_fails)
                          ELSE CreateCommandDocument(store, name,
                                   document.content, outcome = "error")
             IN  IF write.raised
                 THEN [store |-> write.store, raised |-> TRUE,
                       calls |-> get.calls \o write.calls]
                 ELSE IF ShareWanted(accounts)
                 THEN LET share == ShareDocument(write.store, name, accounts,
                                                 share_fails)
                      IN  [store |-> share.store, raised |-> share.raised,
                           calls |-> get.calls \o write.calls
                                     \o <<DocumentCall("share_document", name,
                                             IF share.raised THEN "error"
                                             ELSE "ok")>>
                                     \o share.calls]
                 ELSE [store |-> write.store, raised |-> FALSE,
                       calls |-> get.calls \o write.calls]

\* How the update or the creation of a turn can end.
WriteOutcomes(store, document) ==
    IF DocumentExists(store, document.name)
    THEN UpdateDocumentOutcomes(store, document.name, document.content)
    ELSE {"ok", "error"}

DeployErr(region) == <<"Error in deploy_document for", region>>

DeployCaller(region) == <<"deploy_documents", region>>

(***************************************************************************)
(* Specification SpecDeploy: one call of deploy_documents for a region,    *)
(* with the documents get_documents returned, or one call of               *)
(* update_document_set_default.                                            *)
(***************************************************************************)
DEPLOY_DOCUMENTS == "deploy_documents"
UPDATE_DOCUMENT == "update_document_set_default"

MaxDocuments == 2

DocName(i) == "doc-" \o ToString(i)

DocContents == {"content a", "content b"}

\* What get_documents returns: name, content and format of each blob under
\* the documents prefix ("doc.json" and "doc.yml" give one name twice).
Documents ==
    SeqsUpTo([name : {DocName(1), DocName(2)}, content : DocContents,
              doc_format : {"JSON"}], MaxDocuments)

\* A document of the region: one version, or two with either as default.
DeployedDocuments ==
    {[versions |-> <<"content a">>, default |-> 1, shared |-> {}],
     [versions |-> <<"content a", "content b">>, default |-> 1, shared |-> {}],
     [versions |-> <<"content a", "content b">>, default |-> 2, shared |-> {}]}

DocumentStores ==
    UNION {[have -> DeployedDocuments] : have \in SUBSET {DocName(1), DocName(2)}}

\* The account list of the region's job blob.
DeployAccounts == {<<>>, <<"111111111111">>, <<"111111111111", "222222222222">>}

InitDeployDocuments ==
    /\ uOp = DEPLOY_DOCUMENTS
    /\ \E documents \in Documents, accounts \in DeployAccounts :
         uArgs = [region |-> "us-east-1", accounts |-> accounts,
                  documents |-> documents]
    /\ ssm \in DocumentStores
    /\ uOut = [done |-> 0, returned |-> <<>>]

InitUpdateDocument ==
    /\ uOp = UPDATE_DOCUMENT
    /\ \E content \in DocContents :
         uArgs = [name |-> DocName(1), content |-> content,
                  doc_format |-> "JSON"]
    /\ ssm \in DocumentStores
    /\ uOut = <<>>

InitDeploy ==
    /\ \/ InitDeployDocuments
       \/ InitUpdateDocument
    /\ uPc = "call"
    /\ uCalls = <<>>
    /\ uBefore = ssm
    /\ s3 = <<>>
    /\ IdleRun
    /\ IdleChunk
    /\ IdleMain

\* The provider calls of turn i, as the history keeps them.
TurnCalls(i, calls) == [k \in DOMAIN calls |-> [turn |-> i, call |-> calls[k]]]

\* deploy_documents: one turn of `for document in documents`.  An exception
\* ends the loop: post_error writes the record (and may raise itself), and
\* deploy_documents returns True.
DeployDocumentTurn ==
    /\ uOp = DEPLOY_DOCUMENTS
    /\ uPc \in {"call", "running"}
    /\ uOut.done < Len(uArgs.documents)
    /\ LET i == uOut.done + 1
           document == uArgs.documents[i]
       IN  \E get_fails \in BOOLEAN, outcome \in WriteOutcomes(ssm, document),
              default_fails \in BOOLEAN, share_fails \in BOOLEAN,
              post_fails \in BOOLEAN, ts \in Timestamps :
             LET c == DeployDocument(ssm, document, uArgs.accounts, get_fails,
                                     outcome, default_fails, share_fails)
             IN  /\ ssm' = c.store
                 /\ uCalls' = uCalls \o TurnCalls(i, c.calls)
                 /\ IF ~c.raised
                    THEN /\ uPc' = "running"
                         /\ uOut' = [uOut EXCEPT !.done = i]
                         /\ s3' = s3
                    ELSE IF post_fails
                    THEN /\ uPc' = "raised"
                         /\ UNCHANGED <<uOut, s3>>
                    ELSE /\ uPc' = "returned"
                         /\ uOut' = [uOut EXCEPT !.returned = <<TRUE>>]
                         /\ s3' = PutObject(s3,
                                      DEPLOY_ERRORS_PREFIX
                                          \o DeployCaller(uArgs.region)
                                          \o <<TimestampName(ts)>>,
                                      JsonDumps(DeployErr(uArgs.region)))
    /\ UNCHANGED <<uOp, uArgs, uBefore, cjVars, runVars, mainVars>>

\* deploy_documents: `return True` after the last document.
DeployReturn ==
    /\ uOp = DEPLOY_DOCUMENTS
    /\ uPc \in {"call", "running"}
    /\ uOut.done = Len(uArgs.documents)
    /\ uPc' = "returned"
    /\ uOut' = [uOut EXCEPT !.returned = <<TRUE>>]
    /\ UNCHANGED <<s3, ssm, uOp, uArgs, uCalls, uBefore, cjVars, runVars,
                   mainVars>>

UpdateDocumentCall ==
    /\ uOp = UPDATE_DOCUMENT
    /\ uPc = "call"
    /\ \E outcome \in UpdateDocumentOutcomes(ssm, uArgs.name, uArgs.content),
          default_fails \in BOOLEAN :
         LET c == UpdateDocumentSetDefault(ssm, uArgs.name, uArgs.content,
                                           outcome, default_fails)
         IN  /\ ssm' = c.store
             /\ uCalls' = c.calls
             /\ uPc' = IF c.raised THEN "raised" ELSE "returned"
             /\ uOut' = c.out
    /\ UNCHANGED <<s3, uOp, uArgs, uBefore, cjVars, runVars, mainVars>>

NextDeploy ==
    \/ DeployDocumentTurn
    \/ DeployReturn
    \/ UpdateDocumentCall

SpecDeploy == InitDeploy /\ [][NextDeploy]_vars

(***************************************************************************)
(* Specification SpecInit: the init state alone, during an outage of the   *)
(* blob store: the invocation of main with action "init", and again when   *)
(* the state machine retries it.  uBefore is the bucket the execution      *)
(* started on and uCalls the bucket each invocation left.                  *)
(***************************************************************************)
INIT == "init"

InitInit ==
    /\ \E stale \in StaleStores, account_list \in AccountLists :
         s3 = PutObject(stale, ACCOUNTS_KEY, JsonDumps(account_list))
    /\ pc = "init"
    /\ tries = [init |-> 0, check |-> 0]
    /\ initOut = <<>>
    /\ divide = <<>>
    /\ run = <<>>
    /\ result = "none"
    /\ errAtStart = 0
    /\ budget = MaxOutage
    /\ startAction = "init"
    /\ NoHistory
    /\ IdleChunk
    /\ IdleMain
    /\ ssm = <<>>
    /\ uOp = INIT
    /\ uArgs = <<>>
    /\ uPc = "idle"
    /\ uCalls = <<>>
    /\ uOut = <<>>
    /\ uBefore = s3

\* One invocation of the init state.
InitAttempt ==
    /\ pc = "init"
    /\ InitAccepted
    /\ uCalls' = Append(uCalls, s3')
    /\ UNCHANGED <<run, lastCheck, executed, raised, errAtStart, budget,
                   startAction, cjVars, mainVars, ssm, uOp, uArgs, uPc, uOut,
                   uBefore>>

NextInit == InitAttempt

SpecInit == InitInit /\ [][NextInit]_vars

(***************************************************************************)
(* main of ssm_parameter_cleaner.  A stage is given as the bucket it       *)
(* leaves, the exception it raised ("none" when it returned) and its       *)
(* result.  The account list is kept under "account_list", the jobs and    *)
(* the error records under "ssm_tool/".                                    *)
(***************************************************************************)
CLEANER_ACCOUNTS_KEY == <<"account_list">>
CLEANER_TO_CLEAN == <<<<"ssm_tool">>>>
CLEANER_JOB_ACTION == "fix"

\* post_error(err, caller): key "ssm_tool/errors/<caller>_<timestamp>.txt".
CleanerErrorKey(caller, ts) ==
    ERRORS_PREFIX \o <<caller[1] \o "_" \o TimestampName(ts)>>

\* A call of post_error with the keyword arguments given: `caller` is <<>>
\* when the call passes none, and then the call raises TypeError before the
\* body runs (both parameters are required); `fails`: put_object_ raises.
CleanerPostError(store, err, caller, ts, fails) ==
    IF caller = <<>> THEN [store |-> store, raised |-> "TypeError"]
    ELSE IF fails THEN [store |-> store, raised |-> "Exception"]
    ELSE [store |-> PutObject(store, CleanerErrorKey(caller, ts), JsonDumps(err)),
          raised |-> "none"]

CleanerStageOut(store, ex, res) ==
    [store |-> store, raised |-> ex, res |-> res]

\* action "init": clean_up_s3, make_jobs.  `cf`: the fault of clean_up_s3
\* (see CleanLoop); `done`: how many batches are written before a put
\* raises.
CleanerInit(store, cf, post_fails, ts, done) ==
    LET cu == CleanLoop(store, CLEANER_TO_CLEAN, 1, cf)
        post == IF cu.caught
                THEN CleanerPostError(cu.store, CleanUpErr, CLEAN_UP_CALLER,
                                      ts, post_fails)
                ELSE [store |-> cu.store, raised |-> "none"]
    IN  IF post.raised # "none"
        THEN CleanerStageOut(post.store, post.raised, {})
        ELSE IF CLEANER_ACCOUNTS_KEY \notin DOMAIN post.store
        THEN CleanerStageOut(post.store, "Exception", {})
        ELSE LET account_list == GetObjectAsDict(post.store,
                                                 CLEANER_ACCOUNTS_KEY)
                 puts == MakeJobsPuts(CLEANER_JOB_ACTION, account_list)
                 n == IF done < Len(puts) THEN done ELSE Len(puts)
             IN  CleanerStageOut(ApplyPuts(post.store, puts, n),
                                 IF n < Len(puts) THEN "Exception" ELSE "none",
                                 {[action |-> "divide_jobs",
                                   s3_key |-> PrefixKey(JOBS_PREFIX
                                       \o <<account_list[i].region>>)] :
                                     i \in 1..Len(account_list)})

\* action "divide_jobs".
CleanerDivideJobs(store, s3_key, list_fails) ==
    IF list_fails THEN CleanerStageOut(store, "Exception", {})
    ELSE CleanerStageOut(store, "none",
             {[action |-> "run_job", job_key |-> key] :
                 key \in ListBucketKeys(store, s3_key)})

FixTagsErr == <<"Error in fix_tags">>

FIX_TAGS_CALLER == <<"fix_tags">>

\* action "run_job": fix_tags for every job of the batch.  fix_tags catches
\* its exceptions and posts an error record; `failing` are the turns where
\* it does, `post_fails`: the first of these posts raises.
CleanerRunJob(store, job_key, get_fails, failing, post_fails) ==
    IF get_fails \/ job_key \notin DOMAIN store
    THEN CleanerStageOut(store, "Exception", {})
    ELSE LET jobs == GetObjectAsDict(store, job_key)
             turns == {i \in DOMAIN jobs : i \in failing}
         IN  IF turns # {} /\ post_fails
             THEN CleanerStageOut(store, "Exception", {})
             ELSE CleanerStageOut(
                      [k \in DOMAIN store
                             \cup {CleanerErrorKey(FIX_TAGS_CALLER, i) :
                                      i \in turns} |->
                          IF k \in {CleanerErrorKey(FIX_TAGS_CALLER, i) :
                                       i \in turns}
                          THEN JsonDumps(FixTagsErr) ELSE store[k]],
                      "none",
                      IF jobs = <<>> THEN {}
                      ELSE {[action |-> "error_check"]})

\* action "error_check": check_for_errors.
CleanerErrorCheck(store, list_fails, post_fails, ts) ==
    IF list_fails
    THEN LET post == CleanerPostError(store, CheckErr, CHECK_CALLER, ts,
                                      post_fails)
         IN  CleanerStageOut(post.store,
                             IF post.raised = "none" THEN "SsmToolException"
                             ELSE post.raised,
                             {})
    ELSE IF ErrorsDetected(ListBucketKeys(store, ERRORS_PREFIX))
    THEN CleanerStageOut(store, "SsmToolException", {})
    ELSE CleanerStageOut(store, "none", {[result |-> "Success!"]})

\* msg of the except clause of main.
CleanerMainErr(action, ex) == <<"Exception caught in fix_ssm", action, ex>>

\* The except clause of main: app.post_error(err=msg), with no `caller`,
\* then raise Exception(msg) from ex.  The outcome is the exception that
\* leaves main and the failure its message wraps.
CleanerExcept(store, action, ex, ts, post_fails) ==
    LET msg == CleanerMainErr(action, ex)
        post == CleanerPostError(store, msg, <<>>, ts, post_fails)
    IN  IF post.raised # "none"
        THEN [store |-> post.store, exception |-> post.raised, wraps |-> "none"]
        ELSE [store |-> post.store, exception |-> "Exception", wraps |-> ex]

(***************************************************************************)
(* Specification SpecCleaner: one invocation of the cleaner's main with    *)
(* the event of one of its four stages, on a bucket that may hold the      *)
(* account list, a batch and an error record.                              *)
(***************************************************************************)
CleanerStores ==
    {[k \in (IF a = <<>> THEN {} ELSE {CLEANER_ACCOUNTS_KEY})
            \cup (IF b = <<>> THEN {} ELSE {BATCH_KEY})
            \cup (IF e THEN {ErrorKey(RunJobCaller(StaleJob), 1)} ELSE {}) |->
         IF k = CLEANER_ACCOUNTS_KEY THEN JsonDumps(a[1])
         ELSE IF k = BATCH_KEY THEN JsonDumps(b[1])
         ELSE StaleError] :
       a \in {<<>>} \cup {<<l>> : l \in RetryAccountLists},
       b \in {<<>>} \cup {<<jobs>> : jobs \in SeqsUpTo(JobSet, MaxBatchJobs)},
       e \in BOOLEAN}

CleanerEvent(action) ==
    [action |-> action,
     s3_key |-> PrefixKey(JOBS_PREFIX \o <<"us-east-1">>),
     job_key |-> BATCH_KEY]

InitCleaner ==
    /\ s3 \in CleanerStores
    /\ mTool = PARAMETER_CLEANER
    /\ mAction \in KnownActions(PARAMETER_CLEANER)
    /\ mPc = "call"
    /\ mRes = [exception |-> "none", wraps |-> "none", res |-> {}]
    /\ mBefore = s3
    /\ IdleRun
    /\ IdleChunk
    /\ IdleCall

\* The outcomes of the stage the event names.
CleanerStages(store, event) ==
    IF event.action = "init"
    THEN {CleanerInit(store, cf, pf, ts, done) :
             cf \in 0..2, pf \in BOOLEAN, ts \in Timestamps,
             done \in 0..MaxAccounts}
    ELSE IF event.action = "divide_jobs"
    THEN {CleanerDivideJobs(store, event.s3_key, lf) : lf \in BOOLEAN}
    ELSE IF event.action = "run_job"
    THEN {CleanerRunJob(store, event.job_key, gf, failing, pf) :
             gf \in BOOLEAN, failing \in SUBSET (1..MaxBatchJobs),
             pf \in BOOLEAN}
    ELSE {CleanerErrorCheck(store, lf, pf, ts) :
             lf \in BOOLEAN, pf \in BOOLEAN, ts \in Timestamps}

CleanerMainCall ==
    /\ mTool = PARAMETER_CLEANER
    /\ mPc = "call"
    /\ \E stage \in CleanerStages(s3, CleanerEvent(mAction)),
          ts \in Timestamps, post_fails \in BOOLEAN :
         IF stage.raised = "none"
         THEN /\ s3' = stage.store
              /\ mPc' = "returned"
              /\ mRes' = [mRes EXCEPT !.res = stage.res]
         ELSE LET x == CleanerExcept(stage.store, mAction, stage.raised, ts,
                                     post_fails)
              IN  /\ s3' = x.store
                  /\ mPc' = "raised"
                  /\ mRes' = [mRes EXCEPT !.exception = x.exception,
                                          !.wraps = x.wraps]
    /\ UNCHANGED <<mTool, mAction, mBefore, cjVars, runVars, callVars>>

NextCleaner == CleanerMainCall

SpecCleaner == InitCleaner /\ [][NextCleaner]_vars

(***************************************************************************)
(* Specification SpecLive: an execution of the state machine that goes on  *)
(* while a state can be entered or an invocation can return or fail: the   *)
(* engine starts the next state when one ends, retries after its interval  *)
(* and an invocation ends at the latest at the Lambda's timeout.  The      *)
(* executions are those of SpecRetry, and those on an account list with    *)
(* no region or with a region of no account.                               *)
(***************************************************************************)
LiveAccountLists ==
    RetryAccountLists
    \cup {<<>>, <<[region |-> "us-east-1", accounts |-> <<>>]>>}

InitLive ==
    /\ \E account_list \in LiveAccountLists :
         s3 = PutObject(<<>>, ACCOUNTS_KEY, JsonDumps(account_list))
    /\ pc = "init"
    /\ tries = [init |-> 0, check |-> 0]
    /\ initOut = <<>>
    /\ divide = <<>>
    /\ run = <<>>
    /\ result = "none"
    /\ errAtStart = 0
    /\ budget = MaxOutage
    /\ startAction \in StartActions
    /\ NoHistory
    /\ IdleChunk
    /\ IdleMain
    /\ IdleCall

SpecLive == InitLive /\ [][Next]_vars /\ WF_vars(Next)

(***************************************************************************)
(* Specification SpecChunkLoop: one call of chunk_jobs, pass by pass of    *)
(* its `while jobs:` loop, for any max_batches from 0.  uOut holds the     *)
(* local state of the call: the jobs not yet popped and job_groups.  The   *)
(* interpreter goes on while a statement can run.                          *)
(***************************************************************************)
CHUNK_JOBS == "chunk_jobs"

InitChunkLoop ==
    /\ s3 = <<>>
    /\ ssm = <<>>
    /\ uOp = CHUNK_JOBS
    /\ \E jobs \in SeqsUpTo(JobSet, MaxJobs), max_batches \in 0..MaxM :
         /\ uArgs = [jobs |-> jobs, region |-> "us-east-1",
                     s3_prefix |-> JOBS_PREFIX, max_batches |-> max_batches]
         /\ uOut = [jobs |-> jobs,
                    job_groups |->
                        [x \in 0..(NumberOfBatches(jobs, max_batches) - 1) |->
                            <<>>]]
    /\ uPc = "call"
    /\ uCalls = <<>>
    /\ uBefore = <<>>
    /\ IdleRun
    /\ IdleChunk
    /\ IdleMain

\* One pass of `while jobs:`: the for loop over job_groups pops a job for
\* each batch until no job is left.  Over an empty job_groups the pass does
\* nothing.
ChunkJobsWhile ==
    /\ uOp = CHUNK_JOBS
    /\ uPc \in {"call", "while"}
    /\ uOut.jobs # <<>>
    /\ LET n == NumberOfBatches(uArgs.jobs, uArgs.max_batches)
       IN  uOut' = [jobs |-> SubSeq(uOut.jobs, n + 1, Len(uOut.jobs)),
                    job_groups |-> ForBatches(uOut.jobs, uOut.job_groups, n)]
    /\ uPc' = "while"
    /\ UNCHANGED <<s3, ssm, uOp, uArgs, uCalls, uBefore, cjVars, runVars,
                   mainVars>>

\* `for batch in job_groups: put_object_(...)` and `return True`; a put
\* that raises ends the call.
ChunkJobsPut ==
    /\ uOp = CHUNK_JOBS
    /\ uPc \in {"call", "while"}
    /\ uOut.jobs = <<>>
    /\ LET puts == [i \in 1..Cardinality(DOMAIN uOut.job_groups) |->
                       <<BatchKey(uArgs.s3_prefix, uArgs.region, i - 1),
                         JsonDumps(uOut.job_groups[i - 1])>>]
       IN  \E done \in 0..Len(puts) :
              /\ s3' = ApplyPuts(s3, puts, done)
              /\ uCalls' = SubSeq(puts, 1, done)
              /\ uPc' = IF done = Len(puts) THEN "returned" ELSE "raised"
    /\ UNCHANGED <<ssm, uOp, uArgs, uOut, uBefore, cjVars, runVars, mainVars>>

NextChunkLoop ==
    \/ ChunkJobsWhile
    \/ ChunkJobsPut

SpecChunkLoop ==
    InitChunkLoop /\ [][NextChunkLoop]_vars /\ WF_vars(NextChunkLoop)

(***************************************************************************)
(* Specification SpecWaiter: one call of state_machine_waiter of           *)
(* start_state_machine.py.  Every poll observes a status of the execution  *)
(* or raises; uCalls holds what the polls observed, uOut the loop counter  *)
(* and the value returned.  The script goes on while a statement can run.  *)
(***************************************************************************)
MAX_WAIT == 75

STATE_MACHINE_WAITER == "state_machine_waiter"

\* The status describe_execution reports.
ExecutionStatuses ==
    {"RUNNING", "SUCCEEDED", "FAILED", "TIMED_OUT", "ABORTED"}

\* What a poll can observe: a status, or the exception of describe_execution_.
PollOutcomes == ExecutionStatuses \cup {"raised"}

WaiterResultAlwaysSuccess(status) == "Success!"

\* The value returned for a status other than RUNNING.
WaiterResult(status) ==
    IF status = "SUCCEEDED" THEN "Success!" ELSE "Ended with errors"

InitWaiter ==
    /\ s3 = <<>>
    /\ ssm = <<>>
    /\ uOp = STATE_MACHINE_WAITER
    /\ uArgs = [exec_arn |-> "arn"]
    /\ uPc = "call"
    /\ uCalls = <<>>
    /\ uOut = [count |-> 0, returned |-> <<>>]
    /\ uBefore = <<>>
    /\ IdleRun
    /\ IdleChunk
    /\ IdleMain

\* One turn of `while count < MAX_WAIT`: describe_execution_, then the
\* return, the raise, or the sleep and count += 1.
WaiterPoll ==
    /\ uOp = STATE_MACHINE_WAITER
    /\ uPc \in {"call", "waiting"}
    /\ uOut.count < MAX_WAIT
    /\ \E observed \in PollOutcomes :
         /\ uCalls' = Append(uCalls, observed)
         /\ IF observed = "raised"
            THEN /\ uPc' = "raised"
                 /\ uOut' = uOut
            ELSE IF observed # "RUNNING"
            THEN /\ uPc' = "returned"
                 /\ uOut' = [uOut EXCEPT !.returned = <<WaiterResult(observed)>>]
            ELSE /\ uPc' = "waiting"
                 /\ uOut' = [uOut EXCEPT !.count = @ + 1]
    /\ UNCHANGED <<s3, ssm, uOp, uArgs, uBefore, cjVars, runVars, mainVars>>

\* The loop ended with count = MAX_WAIT.
WaiterTimeout ==
    /\ uOp = STATE_MACHINE_WAITER
    /\ uPc \in {"call", "waiting"}
    /\ uOut.count >= MAX_WAIT
    /\ uPc' = "returned"
    /\ uOut' = [uOut EXCEPT !.returned = <<"Max Timeout Exceeded">>]
    /\ UNCHANGED <<s3, ssm, uOp, uArgs, uCalls, uBefore, cjVars, runVars,
                   mainVars>>

NextWaiter ==
    \/ WaiterPoll
    \/ WaiterTimeout

SpecWaiter == InitWaiter /\ [][NextWaiter]_vars /\ WF_vars(NextWaiter)

(***************************************************************************)
(* Claims about chunk_jobs.                                                *)
(***************************************************************************)
PersistedJobs == Flatten([i \in DOMAIN cjPuts |-> JsonLoads(cjPuts[i][2])])

\* C1: after chunk_jobs returns, the job lists it persisted under
\* <prefix>/<region>/batch-*, taken together with multiplicity, are exactly
\* the input job list: no job dropped, none duplicated.
C1_PartitionComplete ==
    cjPc = "returned" =>
        /\ \A i \in DOMAIN cjPuts :
              /\ cjPuts[i][1] \in DOMAIN s3
              /\ s3[cjPuts[i][1]] = cjPuts[i][2]
              /\ HasPrefix(cjPuts[i][1], JOBS_PREFIX \o <<"us-east-1">>)
        /\ Len(PersistedJobs) = Len(cjJobs)
        /\ \A j \in JobSet : CountIn(PersistedJobs, j) = CountIn(cjJobs, j)

C1_Witness ==
    /\ cjPc = "returned"
    /\ Len(cjJobs) = MaxJobs
    /\ Len(cjPuts) = 3
    /\ \E j \in JobSet : CountIn(cjJobs, j) >= 2

Min(a, b) == IF a < b THEN a ELSE b

\* C2: chunk_jobs produces exactly min(len(J), M) batches, and the sizes of
\* any two batches differ by at most 1.
C2_PartitionFair ==
    cjPc = "returned" =>
        /\ Len(cjPuts) = Min(Len(cjJobs), cjMax)
        /\ \A i, k \in DOMAIN cjPuts :
              Len(JsonLoads(cjPuts[i][2])) - Len(JsonLoads(cjPuts[k][2])) <= 1

C2_Witness ==
    /\ cjPc = "returned"
    /\ Len(cjJobs) = MaxJobs
    /\ cjMax = MaxM
    /\ \E i, k \in DOMAIN cjPuts :
          Len(JsonLoads(cjPuts[i][2])) # Len(JsonLoads(cjPuts[k][2]))

\* C3: chunk_jobs called with an empty job list returns having made no
\* batch and no blob-store write: the bucket is as it was.
C3_EmptyInput ==
    (cjJobs = <<>> /\ cjPc \notin {"call", "idle"}) =>
        /\ cjPc = "returned"
        /\ cjPuts = <<>>
        /\ s3 = cjBefore

C3_Witness ==
    /\ cjJobs = <<>>
    /\ cjPc = "returned"
    /\ s3 # <<>>

(***************************************************************************)
(* Claims about an execution of the state machine.                         *)
(***************************************************************************)
NoRetry ==
    /\ tries.init = 0
    /\ tries.check = 0
    /\ \A i \in DOMAIN divide : divide[i].tries = 0
    /\ \A key \in DOMAIN run : run[key].tries = 0

\* C4: an execution in which the remote operation of at least one job
\* raised during run_job never ends with {"result": "Success!"}.  Stated
\* for the executions in which no blob-store call raised and no stage was
\* retried.
C4_FailureVisible ==
    (result = "Success!" /\ faults = 0 /\ NoRetry) =>
        \A j \in JobUniverse : raised[j] = 0

\* C5: an error record written by post_error stays in the bucket, with the
\* body written, until error_check has read the error prefix.  Stated for
\* the executions in which no blob-store call raised.
C5_ErrorRecordsDurable ==
    (pc \in {"divide_jobs", "run_job", "error_check"} /\ faults = 0) =>
        \A key \in DOMAIN posted :
            key \in DOMAIN s3 /\ s3[key] = posted[key].body

\* C6: when the jobs of a batch are run in turn and the remote operation of
\* exactly one of them raises, every job of the batch is executed, the
\* number of blobs under the error prefix grows by exactly 1, and the new
\* record's key and body name the failing job's region and account.
C6_PartialFailureIsolated ==
    (/\ pc = "error_check" /\ faults = 0 /\ NoRetry
     /\ Total(raised) = 1) =>
        /\ \A j \in JobUniverse :
              executed[j] = CountIn(GetObjectAsDict(s3, BATCH_KEY), j)
        /\ Cardinality(ListBucketKeys(s3, ERRORS_PREFIX)) = errAtStart + 1
        /\ \E j \in JobUniverse :
              /\ raised[j] = 1
              /\ \E key \in DOMAIN posted :
                    /\ HasPrefix(key, ERRORS_PREFIX \o RunJobCaller(j))
                    /\ key \in DOMAIN s3
                    /\ JsonLoads(s3[key]) = RunJobErr(j)

\* C7: when the listing of the error prefix succeeds, check_for_errors
\* raises exactly if some blob lies under the error prefix; otherwise the
\* error_check action returns {"result": "Success!"}.
C7_ErrorCheckDecision ==
    lastCheck.listed =>
        /\ lastCheck.raised <=> (ListBucketKeys(s3, ERRORS_PREFIX) # {})
        /\ ~lastCheck.raised <=> (result = "Success!")

C7_Witness ==
    /\ lastCheck.listed
    /\ lastCheck.raised
    /\ Total(raised) > 0

AccountList == GetObjectAsDict(s3, ACCOUNTS_KEY)

InitPuts == MakeJobsPuts(JOB_ACTION, AccountList)

\* C8: when init has completed, the job prefix holds exactly the batches
\* this init wrote and the error prefix lists no key, whatever an earlier
\* execution left there.
C8_CleanSlate ==
    pc = "divide_jobs" =>
        /\ ListBucketKeys(s3, JOBS_PREFIX) = {InitPuts[i][1] : i \in DOMAIN InitPuts}
        /\ \A i \in DOMAIN InitPuts : s3[InitPuts[i][1]] = InitPuts[i][2]
        /\ ListBucketKeys(s3, ERRORS_PREFIX) = {}

\* How many jobs equal to j init builds from the account list.
BuiltCount(j) ==
    Cardinality({ik \in {p \in (DOMAIN AccountList) \X (1..MaxAccounts) :
                           p[2] <= Len(AccountList[p[1]].accounts)} :
                   RegionJobs(JOB_ACTION, AccountList[ik[1]])[ik[2]] = j})

\* C9: in an execution in which no stage invocation fails or is retried,
\* init returns one divide_jobs event per region, divide_jobs one run_job
\* event per batch blob under the region's prefix, and every job built by
\* init is passed to run_job exactly once.
C9_EveryJobOnce ==
    /\ (pc \in {"divide_jobs", "run_job"} /\ NoRetry) =>
          /\ Len(initOut) = Len(AccountList)
          /\ \A i \in DOMAIN initOut :
                initOut[i] = JOBS_PREFIX \o <<AccountList[i].region>>
    /\ (pc = "run_job" /\ NoRetry) =>
          DOMAIN run = {key \in DOMAIN s3 :
                          \E i \in DOMAIN initOut :
                             /\ HasPrefix(key, initOut[i])
                             /\ key # PrefixKey(initOut[i])}
    /\ (result = "Success!" /\ NoRetry) =>
          \A j \in JobUniverse : executed[j] = BuiltCount(j)

C9_Witness ==
    /\ result = "Success!"
    /\ NoRetry
    /\ Len(AccountList) = 2
    /\ \E j \in JobUniverse : executed[j] = 2

\* C10: any two post_error writes of one execution use distinct keys.
\* Stated for the executions in which no blob-store call raised and no
\* stage was retried.
C10_ErrorKeysDistinct ==
    (faults = 0 /\ NoRetry) => \A key \in DOMAIN posted : posted[key].n <= 1

(***************************************************************************)
(* Claims about error handling and the state machine's control flow.       *)
(***************************************************************************)
\* C11: post_error returns normally for every input, also when the
\* blob-store write under it fails: no post_error call raises to its
\* caller.
C11_PostErrorAlwaysReturns == postRaised = 0

\* C12: while the blob-store calls succeed, an exception raised by a job's
\* remote operation never leaves run_job: no run_job invocation fails or is
\* retried, each returns {"action": "error_check"}, and the execution can
\* only fail outside the run_job state.
C12_PerJobErrorsContained ==
    faults = 0 =>
        /\ \A key \in DOMAIN run : run[key].tries = 0
        /\ pc = "failed" => \A key \in DOMAIN run : run[key].st = "done"
        /\ pc \in {"error_check", "succeeded"} =>
              \A key \in DOMAIN run : run[key].st = "done"

C12_Witness ==
    /\ faults = 0
    /\ pc = "error_check"
    /\ Cardinality(DOMAIN run) = 2
    /\ Total(raised) = 2

\* C13: error_check is invoked only after every divide_jobs item and every
\* run_job branch of the execution has finished, and at most once, its own
\* retries not counted.
C13_ErrorCheckAfterConvergence ==
    /\ (pc = "error_check" \/ lastCheck.n > 0) =>
          /\ \A i \in DOMAIN divide : divide[i].st = "done"
          /\ \A key \in DOMAIN run : run[key].st = "done"
    /\ lastCheck.n - tries.check <= 1
    /\ pc = "succeeded" => lastCheck.n - tries.check = 1

C13_Witness ==
    /\ lastCheck.n = 1
    /\ Len(divide) = 2
    /\ Cardinality(DOMAIN run) = 2
    /\ Total(executed) = 2

\* C14: when the account list holds no region, init returns an empty list,
\* no divide_jobs and no run_job invocation happens, and the execution
\* reaches error_check, which succeeds.  Stated for the executions started
\* with action "init" in which no blob-store call raised.
C14_ZeroRegions ==
    (/\ AccountList = <<>> /\ startAction = "init" /\ faults = 0
     /\ pc # "init") =>
        /\ initOut = <<>>
        /\ divide = <<>>
        /\ run = <<>>
        /\ pc \in {"error_check", "succeeded"}
        /\ pc = "succeeded" => result = "Success!"

\* C15: a region with no account still takes part: init returns a
\* divide_jobs event for it and writes no batch under its prefix,
\* divide_jobs returns an empty list for it, no run_job branch is started
\* for it, and the execution does not fail on its account.  Stated for the
\* executions started with action "init" in which no blob-store call raised.
C15_EmptyRegionParticipates ==
    (/\ startAction = "init" /\ faults = 0 /\ pc # "init"
     /\ Len(AccountList) > 0) =>
        \A i \in DOMAIN AccountList :
            AccountList[i].accounts = <<>> =>
                /\ i \in DOMAIN initOut
                /\ initOut[i] = JOBS_PREFIX \o <<AccountList[i].region>>
                /\ ListBucketKeys(s3, initOut[i]) = {}
                /\ divide[i].st = "done" => divide[i].out = {}
                /\ \A key \in DOMAIN run : ~HasPrefix(key, initOut[i])
                /\ Total(raised) = 0 => pc # "failed"

C15_Witness ==
    /\ startAction = "init"
    /\ faults = 0
    /\ pc = "succeeded"
    /\ Len(AccountList) = 2
    /\ AccountList[1].accounts = <<>>
    /\ Total(executed) = 2

\* C16: a failing init, divide_jobs or error_check invocation is
\* re-attempted at most 2 times for one input and a failing run_job
\* invocation at most 1 time; error_check is invoked at most 3 times in all.
C16_BoundedRetries ==
    /\ tries.init <= 2
    /\ tries.check <= 2
    /\ lastCheck.n <= 3
    /\ \A i \in DOMAIN divide : divide[i].tries <= 2
    /\ \A key \in DOMAIN run : run[key].tries <= 1

C16_Witness ==
    /\ pc = "failed"
    /\ faults = MaxOutage
    /\ \E key \in DOMAIN run : run[key].tries = 1 /\ run[key].st # "done"

\* C17: when init, divide_jobs or run_job fails with its retries used up,
\* the execution ends failed, and once it has failed no stage is started.
C17_ExhaustionFailsRun ==
    /\ [](pc = "failed" => result = "failed")
    /\ [][pc # "failed"]_vars
    /\ [][(pc = "init" /\ tries.init = 2) =>
             pc' \in {"divide_jobs", "failed"}]_vars
    /\ [][(pc = "divide_jobs" /\ divide' = divide) => pc' = "failed"]_vars
    /\ [][(pc = "run_job" /\ run' = run) => pc' = "failed"]_vars

C17_Witness ==
    /\ pc = "failed"
    /\ startAction = "init"
    /\ tries.init = 2
    /\ faults = 3
    /\ lastCheck.n = 0

\* C18: an init invocation whose event carries an action main does not
\* know fails the execution at once: the state machine does not invoke the
\* stage again for that event.
C18_ValidationNotRetried ==
    startAction \notin {"init", "divide_jobs", "run_job", "error_check"} =>
        /\ tries.init = 0
        /\ pc \in {"init", "failed"}

\* C19: main of each of the four tools, called with an event whose action
\* is none of the tool's own, raises instead of returning a result, and
\* leaves the bucket as it was.
C19_UnknownActionRejected ==
    mPc \in {"returned", "raised"} =>
        /\ mPc = "raised"
        /\ s3 = mBefore

\* C20: within one run_job invocation the jobs of the batch are passed to
\* run_job one per turn, in exactly the order in which the batch blob stores
\* them: what the invocation has run so far is always an initial segment of
\* the stored list, the next job is the one right after that segment, and an
\* invocation that returned has run the whole list.
C20_InOrderSequential ==
    \A key \in DOMAIN run :
        LET b == run[key]
        IN  (key \in DOMAIN s3 /\ b.st \in {"running", "done"}) =>
              LET stored == GetObjectAsDict(s3, key)
              IN  /\ Len(b.log) <= Len(stored)
                  /\ b.log = SubSeq(stored, 1, Len(b.log))
                  /\ b.st = "running" => b.idx = Len(b.log) + 1
                  /\ b.st = "done" => b.log = stored

C20_Witness ==
    \E key \in DOMAIN run :
        /\ run[key].st = "done"
        /\ Len(run[key].log) = 2
        /\ run[key].log[1] # run[key].log[2]
        /\ key \in DOMAIN s3

CallNames == Flatten([i \in DOMAIN uCalls |-> uCalls[i].names])

\* C22: delete_parameters_(names) issues ceil(n / 10) provider calls of at
\* most 10 names each, whose name lists concatenated in order are `names`
\* (23 names: 10, 10, 3); `deleted` and `invalid` of the result are the
\* concatenations of the calls' DeletedParameters and InvalidParameters.
C22_ChunkedDelete ==
    (uOp = DELETE_PARAMETERS /\ uPc = "returned") =>
        LET n == Len(uArgs.names)
        IN  /\ Len(uCalls) * limit >= n
            /\ (Len(uCalls) - 1) * limit < n
            /\ \A i \in DOMAIN uCalls : Len(uCalls[i].names) \in 1..limit
            /\ CallNames = uArgs.names
            /\ n = 23 => /\ Len(uCalls) = 3
                         /\ Len(uCalls[1].names) = 10
                         /\ Len(uCalls[2].names) = 10
                         /\ Len(uCalls[3].names) = 3
            /\ uOut.deleted =
                 Flatten([i \in DOMAIN uCalls |->
                             uCalls[i].res.DeletedParameters])
            /\ uOut.invalid =
                 Flatten([i \in DOMAIN uCalls |->
                             uCalls[i].res.InvalidParameters])

C22_Witness ==
    /\ uOp = DELETE_PARAMETERS
    /\ uPc = "returned"
    /\ Len(uArgs.names) = 23
    /\ Len(uCalls) = 3
    /\ Len(uOut.deleted) = 11
    /\ Len(uOut.invalid) = 12
    /\ ssm = <<>>

\* C30: get_parameters_(names) issues ceil(n / 10) provider calls of at most
\* 10 names each, covering `names` once and in order, and returns the
\* concatenation of the parameters the calls found; a name the provider does
\* not have is missing from the result, and only a provider call that raises
\* makes the method raise.
C30_ChunkedGet ==
    uOp = GET_PARAMETERS =>
        /\ uPc = "returned" =>
             LET n == Len(uArgs.names)
                 found == SelectSeq(uArgs.names, LAMBDA x : x \in DOMAIN uBefore)
             IN  /\ Len(uCalls) * limit >= n
                 /\ (Len(uCalls) - 1) * limit < n
                 /\ \A i \in DOMAIN uCalls : Len(uCalls[i].names) \in 1..limit
                 /\ CallNames = uArgs.names
                 /\ uOut = Flatten([i \in DOMAIN uCalls |->
                                       uCalls[i].res.Parameters])
                 /\ [i \in DOMAIN uOut |-> uOut[i].Name] = found
                 /\ \A i \in DOMAIN uOut :
                       uOut[i].Value = uBefore[uOut[i].Name].value
        /\ uPc = "raised" => uCalls[Len(uCalls)].res = "raised"

C30_Witness ==
    /\ uOp = GET_PARAMETERS
    /\ uPc = "returned"
    /\ Len(uArgs.names) = 23
    /\ Len(uCalls) = 3
    /\ Len(uOut) = 7
    /\ \E i \in DOMAIN uCalls : Len(uCalls[i].res.InvalidParameters) = 7

\* C29: in rename_parameters an old name is passed to delete only after its
\* value was written under the new name by a call that returned; when a
\* write fails the method raises without having issued any delete, and every
\* parameter that existed is still there.
C29_RenameDeletesOnlyCopied ==
    uOp = RENAME_PARAMETERS =>
        /\ \A i \in DOMAIN uCalls :
              uCalls[i].op = "delete_parameters" =>
                \A k \in DOMAIN uCalls[i].names :
                    LET old == uCalls[i].names[k]
                        new == NewName(uArgs.names, old)
                    IN  /\ old \in DOMAIN uBefore
                        /\ \E j \in 1..(i - 1) :
                              /\ uCalls[j].op = "put_parameter"
                              /\ uCalls[j].names = <<new>>
                              /\ uCalls[j].ok
        /\ (\E j \in DOMAIN uCalls :
               uCalls[j].op = "put_parameter" /\ ~uCalls[j].ok) =>
             /\ uPc = "raised"
             /\ \A i \in DOMAIN uCalls : uCalls[i].op # "delete_parameters"
             /\ DOMAIN uBefore \subseteq DOMAIN ssm

C29_Witness ==
    /\ uOp = RENAME_PARAMETERS
    /\ uPc = "raised"
    /\ Len(uArgs.names) = 2
    /\ Len(uOut.delete_list) = 1
    /\ ~uCalls[Len(uCalls)].ok
    /\ uCalls[Len(uCalls)].op = "put_parameter"
    /\ uOut.delete_list[1] \in DOMAIN ssm

C29_WitnessDeleted ==
    /\ uOp = RENAME_PARAMETERS
    /\ uPc = "returned"
    /\ Len(uOut.delete_list) = 2
    /\ DOMAIN ssm = {ParamName(3), ParamName(4)}

\* C23: a check_for_errors call whose listing succeeds writes and deletes no
\* blob, and two consecutive calls whose listings succeed have the same
\* outcome: both return (Success!), or both fail naming the same records.
C23_ErrorCheckIdempotent ==
    /\ [][(lastCheck'.n = lastCheck.n + 1 /\ lastCheck'.listed)
             => s3' = s3]_vars
    /\ [][(/\ lastCheck.n >= 1
           /\ lastCheck'.n = lastCheck.n + 1
           /\ lastCheck.listed
           /\ lastCheck'.listed)
             => /\ lastCheck'.raised = lastCheck.raised
                /\ lastCheck'.errors = lastCheck.errors]_vars
    /\ [](pc = "succeeded" => result = "Success!")

C23_Witness ==
    /\ lastCheck.n = 2
    /\ faults = 0
    /\ pc = "succeeded"
    /\ result = "Success!"

\* C24: when check_for_errors fails because error records exist, the keys
\* its message names are exactly the keys of the blobs under
\* ssm_tool/errors/ (the "folder" key ssm_tool/errors/ itself is no record).
C24_FailureNamesEveryRecord ==
    (lastCheck.n >= 1 /\ lastCheck.listed /\ lastCheck.raised) =>
        /\ lastCheck.errors # {}
        /\ \A key \in DOMAIN s3 :
              (/\ Len(key) > Len(ERRORS_PREFIX)
               /\ SubSeq(key, 1, Len(ERRORS_PREFIX)) = ERRORS_PREFIX
               /\ key # ERRORS_PREFIX \o <<"">>)
                 <=> key \in lastCheck.errors
        /\ lastCheck.errors \subseteq DOMAIN s3

C24_Witness ==
    /\ lastCheck.listed
    /\ lastCheck.raised
    /\ Cardinality(lastCheck.errors) = 4
    /\ ERRORS_PREFIX \o <<"">> \in DOMAIN s3
    /\ pc = "failed"

BatchSize(i) == Len(JsonLoads(cjPuts[i][2]))

\* C25: chunk_jobs on 230 jobs with max_batches = 100 produces exactly 100
\* batches, of which 30 hold 3 jobs and 70 hold 2 jobs.
C25_Scenario230 ==
    (cjPc = "returned" /\ Len(cjJobs) = 230 /\ cjMax = 100) =>
        /\ Len(cjPuts) = 100
        /\ Cardinality({i \in DOMAIN cjPuts : BatchSize(i) = 3}) = 30
        /\ Cardinality({i \in DOMAIN cjPuts : BatchSize(i) = 2}) = 70
        /\ Cardinality(ListBucketKeys(s3, JOBS_PREFIX \o <<"us-east-1">>)) = 100

C25_Witness ==
    /\ cjPc = "returned"
    /\ Len(cjJobs) = 230
    /\ cjMax = 100
    /\ cjJobs[1] # cjJobs[230]
    /\ BatchSize(30) = 3
    /\ BatchSize(31) = 2

\* C27: with N = min(len(jobs), max_batches), chunk_jobs puts the job at
\* input index i (from 0) into batch-(i mod N), and the jobs of a batch keep
\* their input order: batch-b holds the jobs b, b + N, b + 2N, ...
C27_RoundRobin ==
    cjPc = "returned" =>
        LET N == Min(Len(cjJobs), cjMax)
        IN  /\ Len(cjPuts) = N
            /\ \A p \in DOMAIN cjPuts :
                  LET b == p - 1
                      batch == JsonLoads(cjPuts[p][2])
                      idx == {i \in 0..(Len(cjJobs) - 1) : i % N = b}
                  IN  /\ cjPuts[p][1] =
                           JOBS_PREFIX \o <<"us-east-1", "batch-" \o ToString(b)>>
                      /\ Len(batch) = Cardinality(idx)
                      /\ \A k \in DOMAIN batch :
                            batch[k] = cjJobs[b + (k - 1) * N + 1]

C27_Witness ==
    /\ cjPc = "returned"
    /\ Len(cjJobs) = 4
    /\ cjMax = 3
    /\ cjJobs[1] # cjJobs[4]
    /\ JsonLoads(cjPuts[1][2]) = <<cjJobs[1], cjJobs[4]>>

\* C28: chunk_jobs makes exactly min(len(jobs), max_batches) blob writes,
\* one per batch, to the pairwise distinct keys
\* <s3_prefix>/<region>/batch-0 .. batch-(N-1); no batch written is empty
\* and no other key of the bucket is written or removed.
C28_OneWritePerBatch ==
    cjPc = "returned" =>
        LET N == Min(Len(cjJobs), cjMax)
            written == {cjPuts[p][1] : p \in DOMAIN cjPuts}
        IN  /\ Len(cjPuts) = N
            /\ Cardinality(written) = N
            /\ written =
                 {JOBS_PREFIX \o <<"us-east-1", "batch-" \o ToString(b)>> :
                     b \in 0..(N - 1)}
            /\ \A p \in DOMAIN cjPuts : JsonLoads(cjPuts[p][2]) # <<>>
            /\ DOMAIN s3 = DOMAIN cjBefore \cup written
            /\ \A key \in DOMAIN cjBefore \ written : s3[key] = cjBefore[key]
            /\ \A p \in DOMAIN cjPuts : s3[cjPuts[p][1]] = cjPuts[p][2]

C28_Witness ==
    /\ cjPc = "returned"
    /\ Len(cjPuts) = 3
    /\ Len(cjJobs) = 4
    /\ cjBefore # <<>>

\* The jobs make_jobs persisted, batch after batch.
RunDocumentPersisted == Flatten([i \in DOMAIN uCalls |-> JsonLoads(uCalls[i][2])])

\* C26: after make_jobs of the run-document tool returns, every instance id
\* of the instance list is in args.instance_ids of exactly one persisted
\* job, that job carries the instance's region and account, and every
\* persisted job's instance_ids is one chunk of its own account's ids.
C26_InstanceCoverage ==
    (uOp = MAKE_JOBS /\ uPc = "returned") =>
        LET jobs == RunDocumentPersisted
            Holds(j, id) == \E k \in DOMAIN jobs[j].args.instance_ids :
                               jobs[j].args.instance_ids[k] = id
        IN  /\ \A r \in DOMAIN uArgs.instance_list :
               \A a \in DOMAIN uArgs.instance_list[r].accounts :
                  LET entry == uArgs.instance_list[r]
                      acc == entry.accounts[a]
                  IN  /\ \A k \in DOMAIN acc.instance_ids :
                            /\ Cardinality({j \in DOMAIN jobs :
                                              Holds(j, acc.instance_ids[k])}) = 1
                            /\ \A j \in DOMAIN jobs :
                                  Holds(j, acc.instance_ids[k]) =>
                                     /\ jobs[j].region = entry.region
                                     /\ jobs[j].account = acc.account
            /\ \A j \in DOMAIN jobs :
                  \E r \in DOMAIN uArgs.instance_list :
                  \E a \in DOMAIN uArgs.instance_list[r].accounts :
                     LET entry == uArgs.instance_list[r]
                         acc == entry.accounts[a]
                         batches == ChunkInstances(acc.instance_ids)
                     IN  /\ jobs[j].region = entry.region
                         /\ jobs[j].account = acc.account
                         /\ \E b \in DOMAIN batches :
                               jobs[j].args.instance_ids = batches[b]

\* C31: chunk_instances splits an instance list into contiguous chunks of at
\* most 50 ids, every chunk but the last of exactly 50, none empty, whose
\* concatenation in order is the input; an empty list gives no chunk.  The
\* jobs make_jobs builds for a region are one per chunk.
C31_ChunkInstances ==
    uOp = MAKE_JOBS =>
        /\ \A r \in DOMAIN uArgs.instance_list :
              \A a \in DOMAIN uArgs.instance_list[r].accounts :
                 LET instances == uArgs.instance_list[r].accounts[a].instance_ids
                     batches == ChunkInstances(instances)
                 IN  /\ Flatten(batches) = instances
                     /\ \A b \in DOMAIN batches : Len(batches[b]) \in 1..50
                     /\ \A b \in 1..(Len(batches) - 1) : Len(batches[b]) = 50
                     /\ instances = <<>> => batches = <<>>
        /\ uPc = "returned" =>
              Len(RunDocumentPersisted) =
                 Len(Flatten([r \in DOMAIN uArgs.instance_list |->
                        Flatten([a \in DOMAIN uArgs.instance_list[r].accounts |->
                           ChunkInstances(
                              uArgs.instance_list[r].accounts[a].instance_ids)])]))

C31_Witness ==
    /\ uOp = MAKE_JOBS
    /\ uPc = "returned"
    /\ Len(uArgs.instance_list) = 1
    /\ Len(uArgs.instance_list[1].accounts) = 2
    /\ Len(uArgs.instance_list[1].accounts[1].instance_ids) = 51
    /\ uArgs.instance_list[1].accounts[2].instance_ids = <<>>
    /\ Len(RunDocumentPersisted) = 2

(***************************************************************************)
(* Claims about the deployment of documents.                               *)
(***************************************************************************)
\* The client methods called in turn i of deploy_documents.
TurnOps(i) == {uCalls[k].call.op : k \in {j \in DOMAIN uCalls : uCalls[j].turn = i}}

\* Whether the document of turn i was in the region when its turn began: it
\* was there before the call, or an earlier turn created it.
ExistedAtTurn(i) ==
    \/ uArgs.documents[i].name \in DOMAIN uBefore
    \/ \E k \in DOMAIN uCalls :
         /\ uCalls[k].turn < i
         /\ uCalls[k].call = DocumentCall("create_document",
                                          uArgs.documents[i].name, "ok")

\* Whether get_document answered in turn i.
Decided(i) ==
    \E k \in DOMAIN uCalls :
        /\ uCalls[k].turn = i
        /\ uCalls[k].call.op = "describe_document"
        /\ uCalls[k].call.outcome # "error"

\* C32: for each document whose turn deploy_documents reaches, the document
\* is updated (update_document_set_default) when it already exists in the
\* region and created (create_command_document) when it does not, never
\* both; share_document is called only when the region's account list is
\* not empty.
C32_DeployDecision ==
    uOp = DEPLOY_DOCUMENTS =>
        \A i \in DOMAIN uArgs.documents :
            /\ Decided(i) /\ ExistedAtTurn(i) =>
                  /\ "update_document" \in TurnOps(i)
                  /\ "create_document" \notin TurnOps(i)
            /\ Decided(i) /\ ~ExistedAtTurn(i) =>
                  /\ "create_document" \in TurnOps(i)
                  /\ "update_document" \notin TurnOps(i)
            /\ ~Decided(i) =>
                  TurnOps(i) \cap {"update_document", "create_document",
                                   "share_document"} = {}
            /\ "share_document" \in TurnOps(i) => uArgs.accounts # <<>>

\* Two documents of one name, absent from the region, and two accounts: the
\* first turn creates and shares, the second updates and shares.
C32_Witness ==
    /\ uOp = DEPLOY_DOCUMENTS
    /\ uPc = "returned"
    /\ Len(uArgs.documents) = 2
    /\ uArgs.documents[1].name = uArgs.documents[2].name
    /\ uArgs.documents[1].name \notin DOMAIN uBefore
    /\ Len(uArgs.accounts) = 2
    /\ TurnOps(1) = {"describe_document", "create_document", "share_document",
                     "modify_document_permission"}
    /\ TurnOps(2) = {"describe_document", "update_document",
                     "update_document_default_version", "share_document",
                     "modify_document_permission"}
    /\ s3 = <<>>

\* C33: when the provider reports duplicate content,
\* update_document_set_default returns True and leaves the document, its
\* default version included, as it was; when the update makes a version and
\* the method returns, that version is the default one.
C33_DuplicateIsNoOp ==
    uOp = UPDATE_DOCUMENT /\ uPc # "call" =>
        LET name == uArgs.name
        IN  /\ uCalls[1] = DocumentCall("update_document", name,
                                        "DuplicateDocumentContent") =>
                  /\ uPc = "returned"
                  /\ uOut = <<TRUE>>
                  /\ ssm = uBefore
                  /\ Len(uCalls) = 1
            /\ uCalls[1] = DocumentCall("update_document", name, "ok")
                 /\ uPc = "returned" =>
                  /\ uOut = <<TRUE>>
                  /\ ssm[name].versions =
                         Append(uBefore[name].versions, uArgs.content)
                  /\ ssm[name].default = Len(ssm[name].versions)
            /\ uPc = "returned" =>
                  uCalls[1].outcome \in {"DuplicateDocumentContent", "ok"}

\* The content of the latest version, which is not the default one, is sent
\* again: the provider reports a duplicate and the default stays at 1.
C33_Witness ==
    /\ uOp = UPDATE_DOCUMENT
    /\ uPc = "returned"
    /\ uArgs.content = "content b"
    /\ uCalls = <<DocumentCall("update_document", uArgs.name,
                               "DuplicateDocumentContent")>>
    /\ ssm[uArgs.name].versions = <<"content a", "content b">>
    /\ ssm[uArgs.name].default = 1

\* An update with new content returned: the third version is the default.
C33_WitnessUpdated ==
    /\ uOp = UPDATE_DOCUMENT
    /\ uPc = "returned"
    /\ Len(uCalls) = 2
    /\ uBefore[uArgs.name].default = 1
    /\ ssm[uArgs.name].default = 3

(***************************************************************************)
(* Claims about the retry of init.                                         *)
(***************************************************************************)
\* The blobs under the job prefix.
JobPrefix(store) == [k \in ListBucketKeys(store, JOBS_PREFIX) |-> store[k]]

\* The job prefix after one init that returned: the batches of the account
\* list, over the blobs `kept` that the cleaning left.
JobPrefixOnce(kept) ==
    LET keys == {InitPuts[i][1] : i \in DOMAIN InitPuts}
    IN  [k \in DOMAIN kept \cup keys |->
            IF k \in keys
            THEN InitPuts[CHOOSE i \in DOMAIN InitPuts : InitPuts[i][1] = k][2]
            ELSE kept[k]]

\* C34: when init returns on a retry, the job prefix holds what one init
\* that returned leaves on the bucket the execution started on (the batches
\* of the account list, alone or, if clean_up_s3 could not clean, over the
\* blobs found there), whatever the failed attempts wrote.
C34_InitIdempotent ==
    pc = "divide_jobs" /\ Len(uCalls) >= 2 =>
        JobPrefix(s3) \in {JobPrefixOnce(<<>>), JobPrefixOnce(JobPrefix(uBefore))}

\* The first attempt wrote the first of two batches and failed; the second
\* returned.
C34_Witness ==
    /\ pc = "divide_jobs"
    /\ Len(uCalls) = 2
    /\ Len(InitPuts) = 2
    /\ DOMAIN JobPrefix(uCalls[1]) = {InitPuts[1][1]}
    /\ DOMAIN JobPrefix(s3) = {InitPuts[1][1], InitPuts[2][1]}

(***************************************************************************)
(* Claims about the order of the stages.                                   *)
(***************************************************************************)
\* Whether a run_job invocation has started in this execution.
RunJobInvoked ==
    \/ \E key \in DOMAIN run : run[key].st # "pending" \/ run[key].tries > 0
    \/ Total(executed) > 0
    \/ Total(raised) > 0

\* C35: no run_job invocation starts before init has returned and the
\* divide_jobs branch of every region has returned; when a divide_jobs
\* branch has failed on its last retry the execution has failed with no
\* run_job invoked.
C35_StageBarrier ==
    /\ RunJobInvoked \/ run # <<>> =>
          /\ pc \notin {"init", "divide_jobs"}
          /\ Len(divide) = Len(initOut)
          /\ Len(divide) > 0
          /\ \A i \in DOMAIN divide : divide[i].st = "done"
    /\ (\E i \in DOMAIN divide : divide[i].st # "done") =>
          /\ pc \in {"divide_jobs", "failed"}
          /\ run = <<>>
          /\ ~RunJobInvoked

\* The first region's divide_jobs returned a batch to run, the second
\* region's failed on every attempt: the execution has failed with no
\* run_job invocation.
C35_Witness ==
    /\ pc = "failed"
    /\ Len(divide) = 2
    /\ divide[1].st = "done"
    /\ divide[1].out # {}
    /\ divide[2].st = "pending"
    /\ divide[2].tries = DIVIDE_MAX_ATTEMPTS
    /\ run = <<>>
    /\ ~RunJobInvoked

\* Both regions' divide_jobs returned and a run_job invocation has run.
C35_WitnessRun ==
    /\ pc = "run_job"
    /\ Len(divide) = 2
    /\ \A i \in DOMAIN divide : divide[i].st = "done"
    /\ RunJobInvoked

(***************************************************************************)
(* Claims about the cleaner's main.                                        *)
(***************************************************************************)
\* C36: when a stage of the cleaner's main raises, main writes an error
\* record with its message under the error prefix and then raises an
\* Exception that wraps the stage's failure.
C36_CleanerFailureRecorded ==
    mTool = PARAMETER_CLEANER /\ mPc = "raised" =>
        /\ \E key \in ListBucketKeys(s3, ERRORS_PREFIX) :
              \E ex \in {"Exception", "SsmToolException"} :
                  s3[key] = JsonDumps(CleanerMainErr(mAction, ex))
        /\ mRes.exception = "Exception"
        /\ mRes.wraps \in {"Exception", "SsmToolException"}

(***************************************************************************)
(* Claims about termination.                                               *)
(***************************************************************************)
\* The execution has ended: succeeded with main's {"result": "Success!"},
\* or failed.
Terminated ==
    \/ pc = "succeeded" /\ result = "Success!"
    \/ pc = "failed" /\ result = "failed"

\* The stage invocations made so far are within what the retries allow.
InvocationsBounded ==
    /\ tries.init <= INIT_MAX_ATTEMPTS
    /\ tries.check <= ERROR_CHECK_MAX_ATTEMPTS
    /\ \A i \in DOMAIN divide : divide[i].tries <= DIVIDE_MAX_ATTEMPTS
    /\ \A key \in DOMAIN run : run[key].tries <= RUN_JOB_MAX_ATTEMPTS
    /\ lastCheck.n <= ERROR_CHECK_MAX_ATTEMPTS + 1

\* C37: every execution reaches a terminal state, succeeded with
\* {"result": "Success!"} or failed, and stays there; the invocations of
\* each stage are bounded by its retries.
C37_EveryRunTerminates ==
    /\ <>[]Terminated
    /\ []InvocationsBounded
    /\ [][Terminated => UNCHANGED vars]_vars

\* An execution that used every retry of init and of error_check and
\* ended failed.
C37_Witness ==
    /\ pc = "failed"
    /\ result = "failed"
    /\ lastCheck.n = ERROR_CHECK_MAX_ATTEMPTS + 1
    /\ tries.check = ERROR_CHECK_MAX_ATTEMPTS

\* An execution that ended succeeded after running jobs.
C37_WitnessSucceeded ==
    /\ pc = "succeeded"
    /\ result = "Success!"
    /\ Total(executed) > 0

\* C38: every call of chunk_jobs ends (it returns, or a put raises), for
\* every job list and every max_batches from 0, a non-empty list with
\* max_batches = 0 included.
C38_ChunkJobsTerminates ==
    uOp = CHUNK_JOBS => <>(uPc \in {"returned", "raised"})

(***************************************************************************)
(* Claims about state_machine_waiter.                                      *)
(***************************************************************************)
\* What the waiter has returned is what its polls observed: "Success!" for
\* a SUCCEEDED, "Ended with errors" for another status that is not RUNNING,
\* "Max Timeout Exceeded" after MAX_WAIT polls that observed RUNNING.
WaiterAnswer ==
    LET seen == {uCalls[i] : i \in DOMAIN uCalls}
    IN  /\ Len(uCalls) <= MAX_WAIT
        /\ uPc = "returned" =>
              /\ uOut.returned = <<"Success!">> <=> "SUCCEEDED" \in seen
              /\ uOut.returned = <<"Ended with errors">> <=>
                     seen \cap {"FAILED", "TIMED_OUT", "ABORTED"} # {}
              /\ uOut.returned = <<"Max Timeout Exceeded">> <=>
                     /\ Len(uCalls) = MAX_WAIT
                     /\ seen = {"RUNNING"}
              /\ uOut.returned \in {<<"Success!">>, <<"Ended with errors">>,
                                    <<"Max Timeout Exceeded">>}
        /\ uPc = "raised" <=> "raised" \in seen

\* C39 as stated: the waiter polls at most MAX_WAIT times and always
\* returns, with the answer its polls call for.
C39_WaiterAlwaysReturns ==
    /\ []WaiterAnswer
    /\ <>(uPc = "returned")

\* C39: the waiter polls at most MAX_WAIT times and always ends: it returns
\* the answer its polls call for, or raises when a poll raises.
C39_WaiterEnds ==
    /\ []WaiterAnswer
    /\ <>[](uPc \in {"returned", "raised"})

\* MAX_WAIT polls observed RUNNING and the waiter returned.
C39_Witness ==
    /\ uOp = STATE_MACHINE_WAITER
    /\ uPc = "returned"
    /\ Len(uCalls) = MAX_WAIT
    /\ uOut.count = MAX_WAIT
    /\ uOut.returned = <<"Max Timeout Exceeded">>

====
